---- MODULE Spec2Model ----
(***************************************************************************)
(* markgo article tooling: the tag/category migrator                       *)
(* (scripts/migrate_tags_categories.py) and the tag/category analyzer      *)
(* (scripts/analyze_tags_categories.py).                                   *)
(*                                                                         *)
(* Three specifications share the module:                                  *)
(*   SpecMigrate  calls of migrate_tags / migrate_categories on bounded    *)
(*                lists, with the statistics they accumulate;              *)
(*   SpecRun      whole runs of the migration tool over a directory;       *)
(*   SpecAnalyze  whole runs of the analysis tool over a directory.        *)
(***************************************************************************)
EXTENDS Integers, Sequences, FiniteSets, TLC

(***************************************************************************)
(* Bounds of the model.                                                    *)
(***************************************************************************)
\* longest tag / category list handed to migrate_tags / migrate_categories
MaxLen == 3
\* calls of migrate_* followed in one behaviour of SpecMigrate
MaxCalls == 2
\* article files an articles directory holds at most
MaxFiles == 2
\* invocations of the migration tool followed in one behaviour of SpecRun
MaxRuns == 2
\* accesses to storage that fail in one behaviour of SpecRun or SpecAnalyze
MaxFaults == 1
\* metadata fields of an article text of SpecText
MaxFields == 2
\* largest --min-count given to the analysis tool
MaxMinCount == 2
\* largest number of articles asked of the generator
MaxArticles == 3

(***************************************************************************)
(* The migration tables, in source order.  Python keeps the last value of  *)
(* a key that a dict literal repeats ('system-design').  None is the       *)
(* removal marker of tag_mappings.                                         *)
(***************************************************************************)
None == "<None>"

category_pairs ==
  <<
    <<"technology", "technology">>, <<"Technology", "technology">>, <<"General", "technology">>,
    <<"personal", "personal">>, <<"Personal", "personal">>, <<"personal-reflection", "personal">>,
    <<"thoughts", "personal">>, <<"musings", "personal">>, <<"career", "career">>,
    <<"Career", "career">>, <<"leadership", "career">>, <<"music", "music">>,
    <<"cricket", "cricket">>, <<"philosophy", "philosophy">>, <<"reflection", "philosophy">>,
    <<"tools", "tools">>, <<"development-tools", "tools">>, <<"devops", "tools">>,
    <<"DevOps", "tools">>, <<"infrastructure", "tools">>, <<"Infrastructure", "tools">>,
    <<"culture", "culture">>, <<"travel", "culture">>, <<"entrepreneurship", "culture">>,
    <<"community", "culture">>, <<"database", "technology">>, <<"backend", "technology">>,
    <<"backend-development", "technology">>, <<"javascript", "technology">>,
    <<"guides", "technology">>, <<"tutorials", "technology">>, <<"events", "culture">>,
    <<"reviews", "tools">>, <<"search", "technology">>, <<"announcements", "technology">>,
    <<"Thoughts", "personal">>
  >>

tag_pairs ==
  <<
    <<"go", "golang">>, <<"go-programming", "golang">>, <<"node-js", "nodejs">>,
    <<"microservices", "distributed-systems">>, <<"circuit-breaker", "distributed-systems">>,
    <<"resilience-patterns", "distributed-systems">>, <<"architecture", "system-architecture">>,
    <<"system-design", "system-architecture">>, <<"backend-development", "backend">>,
    <<"scalability", "performance">>, <<"disaster-recovery", "high-availability">>,
    <<"postgresql", "database">>, <<"mysql", "database">>, <<"streaming-replication", "database">>,
    <<"distributed-caching", "redis">>, <<"caching", "redis">>, <<"statistics", "data-analysis">>,
    <<"sports-analytics", "data-analysis">>, <<"devops", "infrastructure">>,
    <<"production", "infrastructure">>, <<"deployment", "infrastructure">>,
    <<"monitoring", "infrastructure">>, <<"load-balancing", "nginx">>,
    <<"system-administration", "linux">>, <<"xfs", "linux">>, <<"bash", "automation">>,
    <<"backup", "automation">>, <<"development-standards", "best-practices">>,
    <<"maintainability", "best-practices">>, <<"code-style", "best-practices">>,
    <<"version-control", "git">>, <<"branching-strategy", "git">>, <<"rebase", "git">>,
    <<"code-reviews", "tools-review">>, <<"bug-tracking", "tools-review">>,
    <<"team-collaboration", "tools-review">>, <<"getting-started", "tutorial">>,
    <<"guides", "tutorial">>, <<"tech-tools", "tools-review">>, <<"review", "tools-review">>,
    <<"development-tools", "tools-review">>, <<"search-engine", "search">>,
    <<"information-retrieval", "search">>, <<"elasticsearch", "search">>,
    <<"dynamic-dns", "networking">>, <<"wifi-configuration", "networking">>,
    <<"raspberry-pi", "embedded-systems">>, <<"home-server", "embedded-systems">>,
    <<"array-sorting", "algorithms">>, <<"data-manipulation", "algorithms">>,
    <<"frontend-development", "web-development">>, <<"career", "career-journey">>,
    <<"career-transition", "career-journey">>, <<"early-career", "career-journey">>,
    <<"career-advice", "personal-growth">>, <<"life-lessons", "personal-growth">>,
    <<"self-reflection", "personal-growth">>, <<"authenticity", "personal-growth">>,
    <<"mentorship", "leadership">>, <<"teamwork", "leadership">>,
    <<"engineering-management", "leadership">>, <<"startup-life", "entrepreneurship">>,
    <<"startup-ecosystem", "entrepreneurship">>, <<"startup", "entrepreneurship">>,
    <<"holidays", "work-life-balance">>, <<"team-building", "work-life-balance">>,
    <<"reflections", "reflection">>, <<"personal-reflection", "reflection">>,
    <<"introspection", "reflection">>, <<"existentialism", "philosophy">>,
    <<"meaning", "philosophy">>, <<"consciousness", "philosophy">>,
    <<"motivation", "life-lessons">>, <<"inspiration", "life-lessons">>,
    <<"career-development", "impostor-syndrome">>, <<"system-design", "interviews">>,
    <<"faang", "interviews">>, <<"senior-engineer", "interviews">>, <<"music", "music-analysis">>,
    <<"musical-analysis", "music-analysis">>, <<"storytelling", "music-analysis">>,
    <<"decibel", "indian-rock">>, <<"naagin", "indian-rock">>,
    <<"cultural-fusion", "indian-rock">>, <<"rock-music", "classic-rock">>,
    <<"bryan-adams", "classic-rock">>, <<"bob-dylan", "classic-rock">>,
    <<"live-concerts", "music-events">>, <<"india-tour", "music-events">>,
    <<"cricket", "cricket-analysis">>, <<"cricket-history", "cricket-analysis">>,
    <<"kathmandu", "nepal">>, <<"nepali-poetry", "nepal">>, <<"cultural-identity", "nepal">>,
    <<"hyderabad", "india">>, <<"delhi", "india">>, <<"nizam-era", "india">>,
    <<"heritage", "travel">>, <<"photography", "travel">>, <<"history", "travel">>,
    <<"metaverse", "future-tech">>, <<"artificial-intelligence", "future-tech">>,
    <<"virtual-reality", "future-tech">>, <<"gnome", "open-source">>, <<"legacy", "open-source">>,
    <<"english", "language">>, <<"poetry", "language">>, <<"pronunciation", "language">>,
    <<"literature", "language">>, <<"gource", "visualization">>, <<"ffmpeg", "visualization">>,
    <<"video-creation", "visualization">>, <<"diffusion", "phabricator">>, <<"chaos", "humor">>,
    <<"freedom", "rant">>, <<"individuality", "rant">>, <<"pink-floyd", "rant">>,
    <<"spirituality", "mythology">>, <<"ancient-wisdom", "mythology">>,
    <<"blog", "announcements">>, <<"migration", "announcements">>,
    <<"fresh-start", "announcements">>, <<"welcome", "announcements">>,
    <<"web-design", "news-aggregation">>, <<"zyoba-labs", "community">>,
    <<"blogging", "community">>, <<"user-experience", None>>, <<"thamel", None>>,
    <<"purple-haze", None>>, <<"new-year", None>>, <<"farewell", None>>, <<"birthdays", None>>,
    <<"song-of-the-day", None>>
  >>

InSeq(x, s) == \E i \in DOMAIN s : s[i] = x

Keys(pairs) == {pairs[i][1] : i \in DOMAIN pairs}

\* the dict a literal with these key/value pairs evaluates to
DictOf(pairs) ==
  [k \in Keys(pairs) |->
     LET last == CHOOSE i \in DOMAIN pairs :
                   /\ pairs[i][1] = k
                   /\ \A j \in DOMAIN pairs : pairs[j][1] = k => j <= i
     IN  pairs[last][2]]

category_mappings == DictOf(category_pairs)

tag_mappings == DictOf(tag_pairs)

(***************************************************************************)
(* migrate_categories: one iteration of the loop on the accumulator        *)
(* [new, consolidated], then the whole call.  A call returns the list it   *)
(* was given (arg), that list as the call leaves it (after), the result    *)
(* (new) and the amounts added to the statistics.                          *)
(***************************************************************************)
\* CategoryStep with unmapped categories appended at the front
CategoryStepFront(acc, category) ==
  IF category \in DOMAIN category_mappings
    THEN LET new_cat == category_mappings[category] IN
         IF ~InSeq(new_cat, acc.new)
           THEN [acc EXCEPT !.new = Append(@, new_cat),
                            !.consolidated = IF new_cat # category THEN @ + 1 ELSE @]
           ELSE acc
    ELSE IF ~InSeq(category, acc.new)
           THEN [acc EXCEPT !.new = <<category>> \o @]
           ELSE acc

CategoryStep(acc, category) ==
  IF category \in DOMAIN category_mappings
    THEN LET new_cat == category_mappings[category] IN
         IF ~InSeq(new_cat, acc.new)
           THEN [acc EXCEPT !.new = Append(@, new_cat),
                            !.consolidated = IF new_cat # category THEN @ + 1 ELSE @]
           ELSE acc
    ELSE IF ~InSeq(category, acc.new)
           THEN [acc EXCEPT !.new = Append(@, category)]
           ELSE acc

RECURSIVE CategoryLoop(_, _, _)
CategoryLoop(categories, i, acc) ==
  IF i > Len(categories) THEN acc
  ELSE CategoryLoop(categories, i + 1, CategoryStep(acc, categories[i]))

migrate_categories(categories) ==
  IF categories = << >>
    THEN [arg |-> categories, after |-> categories, new |-> categories,
          consolidated |-> 0, removed |-> 0]
    ELSE CategoryLoop(categories, 1,
           [arg |-> categories, after |-> categories, new |-> << >>,
            consolidated |-> 0, removed |-> 0])

(***************************************************************************)
(* migrate_tags: as migrate_categories, with the removal branch.           *)
(***************************************************************************)
\* TagStep without the membership test before a target is appended
TagStepNoDedup(acc, tag) ==
  IF tag \in DOMAIN tag_mappings
    THEN LET new_tag == tag_mappings[tag] IN
         IF new_tag = None
           THEN [acc EXCEPT !.removed = @ + 1]
           ELSE [acc EXCEPT !.new = Append(@, new_tag),
                            !.consolidated = IF new_tag # tag THEN @ + 1 ELSE @]
    ELSE IF ~InSeq(tag, acc.new)
           THEN [acc EXCEPT !.new = Append(@, tag)]
           ELSE acc

\* TagStep with the removal counted once per call instead of once per tag
TagStepRemovedOnce(acc, tag) ==
  IF tag \in DOMAIN tag_mappings
    THEN LET new_tag == tag_mappings[tag] IN
         IF new_tag = None
           THEN [acc EXCEPT !.removed = 1]
           ELSE IF ~InSeq(new_tag, acc.new)
             THEN [acc EXCEPT !.new = Append(@, new_tag),
                              !.consolidated = IF new_tag # tag THEN @ + 1 ELSE @]
             ELSE acc
    ELSE IF ~InSeq(tag, acc.new)
           THEN [acc EXCEPT !.new = Append(@, tag)]
           ELSE acc

TagStep(acc, tag) ==
  IF tag \in DOMAIN tag_mappings
    THEN LET new_tag == tag_mappings[tag] IN
         IF new_tag = None
           THEN [acc EXCEPT !.removed = @ + 1]
           ELSE IF ~InSeq(new_tag, acc.new)
             THEN [acc EXCEPT !.new = Append(@, new_tag),
                              !.consolidated = IF new_tag # tag THEN @ + 1 ELSE @]
             ELSE acc
    ELSE IF ~InSeq(tag, acc.new)
           THEN [acc EXCEPT !.new = Append(@, tag)]
           ELSE acc

RECURSIVE TagLoop(_, _, _)
TagLoop(tags, i, acc) ==
  IF i > Len(tags) THEN acc
  ELSE TagLoop(tags, i + 1, TagStep(acc, tags[i]))

migrate_tags(tags) ==
  IF tags = << >>
    THEN [arg |-> tags, after |-> tags, new |-> tags, consolidated |-> 0, removed |-> 0]
    ELSE TagLoop(tags, 1,
           [arg |-> tags, after |-> tags, new |-> << >>, consolidated |-> 0, removed |-> 0])

(***************************************************************************)
(* State.                                                                  *)
(*   stats       TagCategoryMigrator.stats                                 *)
(*   input       the list a behaviour of SpecMigrate starts from and the   *)
(*               function it is handed to                                  *)
(*   call        the latest call of migrate_tags / migrate_categories:     *)
(*               the list passed (arg), that list after the call (after),  *)
(*               the list returned (ret), and whether the argument was the *)
(*               result of the call before it (again)                      *)
(*   ncalls      calls made so far in a behaviour of SpecMigrate           *)
(*   dir_exists  whether the articles directory exists                     *)
(*   dir         the files of the articles directory: name -> content      *)
(*   dry_run, backup   the options of the running migrator                 *)
(*   pc          where the running tool is: "main" before run() or         *)
(*               run_analysis(), "loop" inside its for loop, "exit" once   *)
(*               the process has ended; "idle" when no tool runs           *)
(*   markdown_files    the part of the tool's file list not yet iterated   *)
(*   results     per file handed to process_file (analyze_file) in this    *)
(*               run, in order: the file, the value process_file returned, *)
(*               whether an exception was caught                           *)
(*   io_log      the writes to storage of this run, in order               *)
(*   exit_code   the argument of sys.exit (-1 while running)               *)
(*   nruns       invocations of the tool so far                            *)
(*   faults      accesses to storage that have failed so far               *)
(*   analyzer    the TagCategoryAnalyzer: tags_counter, categories_counter,*)
(*               articles_data, tag_cooccurrence, category_articles,       *)
(*               tag_articles                                              *)
(*   summary     what get_summary_stats returned to generate_report        *)
(***************************************************************************)
VARIABLES stats, input, call, ncalls,
          dir_exists, dir, dry_run, backup, pc, markdown_files, results, io_log,
          exit_code, nruns, faults,
          analyzer, summary

migrateVars == <<input, call, ncalls>>

runVars ==
  <<dir_exists, dir, dry_run, backup, pc, markdown_files, results, io_log, exit_code, nruns,
    faults>>

analyzeVars == <<analyzer, summary>>

vars ==
  <<stats, input, call, ncalls,
    dir_exists, dir, dry_run, backup, pc, markdown_files, results, io_log, exit_code, nruns,
    faults, analyzer, summary>>

\* TagCategoryMigrator.__init__: every counter starts at 0
InitStats ==
  [files_processed |-> 0, files_modified |-> 0, tags_consolidated |-> 0,
   categories_consolidated |-> 0, tags_removed |-> 0]

\* no tool is running and there is no articles directory
RunIdle ==
  /\ dir_exists = FALSE
  /\ dir = << >>
  /\ dry_run = FALSE
  /\ backup = FALSE
  /\ pc = "idle"
  /\ markdown_files = << >>
  /\ results = << >>
  /\ io_log = << >>
  /\ exit_code = -1
  /\ nruns = 0
  /\ faults = 0

\* no analyzer has been constructed
AnalyzeIdle ==
  /\ analyzer = << >>
  /\ summary = << >>

NoCall == [fn |-> "none", arg |-> << >>, after |-> << >>, ret |-> << >>, again |-> FALSE]

(***************************************************************************)
(* SpecMigrate: migrate_tags and migrate_categories applied to every list  *)
(* of at most MaxLen values over a sample of the values the tables know    *)
(* and of values they do not know, and then to their own results.          *)
(***************************************************************************)
SampleTags ==
  {"go", "go-programming", "golang", "thamel", "nepal", "kathmandu",
   "motivation", "life-lessons", "rust"}

SampleCategories ==
  {"Technology", "technology", "General", "leadership", "career", "misc"}

SeqsUpTo(S, n) == UNION {[1..k -> S] : k \in 0..n}

TagLists == SeqsUpTo(SampleTags, MaxLen)

CategoryLists == SeqsUpTo(SampleCategories, MaxLen)

\* the statistics after a call that returned r
AddStats(st, r, fn) ==
  IF fn = "migrate_tags"
    THEN [st EXCEPT !.tags_consolidated = @ + r.consolidated,
                    !.tags_removed = @ + r.removed]
    ELSE [st EXCEPT !.categories_consolidated = @ + r.consolidated]

Call(fn, r, again) ==
  /\ ncalls < MaxCalls
  /\ ncalls' = ncalls + 1
  /\ call' = [fn |-> fn, arg |-> r.arg, after |-> r.after, ret |-> r.new, again |-> again]
  /\ stats' = AddStats(stats, r, fn)
  /\ UNCHANGED input
  /\ UNCHANGED runVars
  /\ UNCHANGED analyzeVars

\* the first call, on the list the behaviour starts from
MigrateTags ==
  /\ input.fn = "migrate_tags"
  /\ ncalls = 0
  /\ Call("migrate_tags", migrate_tags(input.list), FALSE)

MigrateCategories ==
  /\ input.fn = "migrate_categories"
  /\ ncalls = 0
  /\ Call("migrate_categories", migrate_categories(input.list), FALSE)

\* a further call, on the list the previous call returned (the next run
\* over a file the previous run rewrote)
MigrateTagsAgain ==
  /\ call.fn = "migrate_tags"
  /\ Call("migrate_tags", migrate_tags(call.ret), TRUE)

MigrateCategoriesAgain ==
  /\ call.fn = "migrate_categories"
  /\ Call("migrate_categories", migrate_categories(call.ret), TRUE)

InitMigrate ==
  /\ stats = InitStats
  /\ input \in [fn : {"migrate_tags"}, list : TagLists]
               \cup [fn : {"migrate_categories"}, list : CategoryLists]
  /\ call = NoCall
  /\ ncalls = 0
  /\ RunIdle
  /\ AnalyzeIdle

NextMigrate ==
  \/ MigrateTags
  \/ MigrateCategories
  \/ MigrateTagsAgain
  \/ MigrateCategoriesAgain

SpecMigrate == InitMigrate /\ [][NextMigrate]_vars

(***************************************************************************)
(* The articles directory.  A file name is the sequence of its             *)
(* dot-separated components (<<1, "md">> is "1.md", <<1, "md", "backup">>  *)
(* is "1.md.backup").  A content is what parse_frontmatter can tell apart: *)
(*   kind "text"     no metadata block (no leading '---', or no second     *)
(*                   '---'), which is also what an empty file is           *)
(*   kind "badyaml"  a metadata block yaml.safe_load rejects               *)
(*   kind "partial"  what a failed copy or write left behind               *)
(*   kind "fm"       a metadata block with its categories and tags, and    *)
(*                   the body after it; null holds those of the keys       *)
(*                   'categories' and 'tags' that are present with the     *)
(*                   YAML value null (an absent key and an empty list are  *)
(*                   both the empty sequence)                              *)
(***************************************************************************)
Text ==
  [kind |-> "text", categories |-> << >>, tags |-> << >>, null |-> {}, body |-> "text"]

BadYaml ==
  [kind |-> "badyaml", categories |-> << >>, tags |-> << >>, null |-> {}, body |-> "text"]

Partial ==
  [kind |-> "partial", categories |-> << >>, tags |-> << >>, null |-> {}, body |-> ""]

Article(categories, tags) ==
  [kind |-> "fm", categories |-> categories, tags |-> tags, null |-> {},
   body |-> "\nbody\n"]

\* the contents an article file starts with
SampleContents ==
  {BadYaml,
   Article(<<"technology">>, <<"golang">>),
   Article(<<"Technology">>, <<"go", "thamel", "golang">>),
   Article(<< >>, <<"motivation">>)}

ArticleName(i) == <<i, IF i % 2 = 0 THEN "markdown" ELSE "md">>

ArticleNames == {ArticleName(i) : i \in 1..MaxFiles}

Directories == UNION {[S -> SampleContents] : S \in SUBSET ArticleNames}

\* Path.glob("*." + ext)
Glob(d, ext) == {n \in DOMAIN d : Len(n) >= 2 /\ n[Len(n)] = ext}

\* the orders in which a glob may yield a set of files
Orders(S) == {l \in [1..Cardinality(S) -> S] : \A i, j \in DOMAIN l : l[i] = l[j] => i = j}

\* glob("*.markdown") + glob("*.md")
MarkdownFiles(d) == {l1 \o l2 : l1 \in Orders(Glob(d, "markdown")), l2 \in Orders(Glob(d, "md"))}

\* a backup named by putting "backup" before the suffix ("1.backup.md")
BackupPathBeforeSuffix(file_path) ==
  SubSeq(file_path, 1, Len(file_path) - 1) \o <<"backup", file_path[Len(file_path)]>>

\* file_path.with_suffix(f"{file_path.suffix}.backup")
BackupPath(file_path) == Append(file_path, "backup")

\* the directory once content is stored under name
Put(d, name, content) ==
  [n \in DOMAIN d \cup {name} |-> IF n = name THEN content ELSE d[n]]

(***************************************************************************)
(* parse_frontmatter / serialize_frontmatter on contents.  {} is the       *)
(* mapping with empty = TRUE; with it comes the content itself, as in      *)
(* "return {}, content".                                                   *)
(***************************************************************************)
EmptyMapping == [empty |-> TRUE, categories |-> << >>, tags |-> << >>, null |-> {}]

parse_frontmatter(content) ==
  IF content.kind = "fm"
    THEN [frontmatter |-> [empty |-> FALSE, categories |-> content.categories,
                           tags |-> content.tags, null |-> content.null],
          body |-> content.body]
    ELSE [frontmatter |-> EmptyMapping, body |-> content]

serialize_frontmatter(frontmatter, body) ==
  IF frontmatter.empty
    THEN [kind |-> "text", categories |-> << >>, tags |-> << >>, null |-> {}, body |-> body]
    ELSE [kind |-> "fm", categories |-> frontmatter.categories, tags |-> frontmatter.tags,
          null |-> frontmatter.null, body |-> body]

(***************************************************************************)
(* process_file.  out says how the three accesses to storage end: reading  *)
(* the file ("ok", "error"), copying it to its backup and rewriting it     *)
(* ("ok"; "denied": it raises before anything is stored; "partial": it     *)
(* raises after part was stored).  The value is the value returned (ret),  *)
(* whether the except clause ran (error), the directory and the statistics *)
(* afterwards, and the writes to storage in order (io).                    *)
(***************************************************************************)
Outcomes ==
  [read : {"ok", "error"}, copy : {"ok", "denied", "partial"},
   write : {"ok", "denied", "partial"}]

AllOk == [read |-> "ok", copy |-> "ok", write |-> "ok"]

\* the except clause returning True
CaughtReturnsTrue(d, st, io) ==
  [ret |-> TRUE, error |-> TRUE, dir |-> d, stats |-> st, io |-> io]

\* except Exception: log and return False
Caught(d, st, io) == [ret |-> FALSE, error |-> TRUE, dir |-> d, stats |-> st, io |-> io]

Returned(ret, d, st, io) == [ret |-> ret, error |-> FALSE, dir |-> d, stats |-> st, io |-> io]

CopyEvent(path, done) == [op |-> "copy", path |-> path, done |-> done]

WriteEvent(path, done) == [op |-> "write", path |-> path, done |-> done]

\* lines 396-402: the file is rewritten
WriteUpdated(d, st, file_path, updated, out, io) ==
  IF out.write = "ok"
    THEN Returned(TRUE, Put(d, file_path, updated), st,
                  Append(io, WriteEvent(file_path, TRUE)))
  ELSE IF out.write = "partial"
    THEN Caught(Put(d, file_path, Partial), st, Append(io, WriteEvent(file_path, FALSE)))
  ELSE Caught(d, st, io)

\* the rewrite going ahead whatever became of the backup
BackupUnchecked(d, st, file_path, updated, bak, out) ==
  IF ~bak THEN WriteUpdated(d, st, file_path, updated, out, << >>)
  ELSE LET backup_path == BackupPath(file_path) IN
       IF out.copy = "ok"
         THEN WriteUpdated(Put(d, backup_path, d[file_path]), st, file_path, updated, out,
                           <<CopyEvent(backup_path, TRUE)>>)
       ELSE IF out.copy = "partial"
         THEN WriteUpdated(Put(d, backup_path, Partial), st, file_path, updated, out,
                           <<CopyEvent(backup_path, FALSE)>>)
       ELSE WriteUpdated(d, st, file_path, updated, out, << >>)

\* lines 390-402: the backup if requested, then the rewrite
BackupAndWrite(d, st, file_path, updated, bak, out) ==
  IF ~bak THEN WriteUpdated(d, st, file_path, updated, out, << >>)
  ELSE LET backup_path == BackupPath(file_path) IN
       IF out.copy = "ok"
         THEN WriteUpdated(Put(d, backup_path, d[file_path]), st, file_path, updated, out,
                           <<CopyEvent(backup_path, TRUE)>>)
       ELSE IF out.copy = "partial"
         THEN Caught(Put(d, backup_path, Partial), st, <<CopyEvent(backup_path, FALSE)>>)
       ELSE Caught(d, st, << >>)

\* the rewrite without the dry-run test
CommitAlways(d, st, file_path, updated, dry, bak, out) ==
  BackupAndWrite(d, st, file_path, updated, bak, out)

\* lines 386-402
Commit(d, st, file_path, updated, dry, bak, out) ==
  IF dry THEN Returned(TRUE, d, st, << >>)
  ELSE BackupAndWrite(d, st, file_path, updated, bak, out)

\* process_file without the "no changes needed" return
process_file_rewrites(d, st, file_path, dry, bak, out) ==
  IF out.read # "ok" THEN Caught(d, st, << >>)
  ELSE
    LET parsed == parse_frontmatter(d[file_path])
        frontmatter == parsed.frontmatter
    IN
    IF frontmatter.empty THEN Returned(FALSE, d, st, << >>)
    ELSE
      LET c == migrate_categories(frontmatter.categories)
          t == migrate_tags(frontmatter.tags)
          st1 == AddStats(AddStats(st, c, "migrate_categories"), t, "migrate_tags")
          updated == [frontmatter EXCEPT !.categories = c.new, !.tags = t.new]
      IN  Commit(d, st1, file_path, serialize_frontmatter(updated, parsed.body),
                 dry, bak, out)

process_file(d, st, file_path, dry, bak, out) ==
  IF out.read # "ok" THEN Caught(d, st, << >>)
  ELSE
    LET parsed == parse_frontmatter(d[file_path])
        frontmatter == parsed.frontmatter
    IN
    IF frontmatter.empty THEN Returned(FALSE, d, st, << >>)
    ELSE
      LET c == migrate_categories(frontmatter.categories)
          t == migrate_tags(frontmatter.tags)
          st1 == AddStats(AddStats(st, c, "migrate_categories"), t, "migrate_tags")
          categories_changed == frontmatter.categories # c.new
          tags_changed == frontmatter.tags # t.new
          updated == [frontmatter EXCEPT
                        !.categories = IF categories_changed THEN c.new ELSE @,
                        !.tags = IF tags_changed THEN t.new ELSE @]
      IN
      IF ~categories_changed /\ ~tags_changed THEN Returned(FALSE, d, st1, << >>)
      ELSE Commit(d, st1, file_path, serialize_frontmatter(updated, parsed.body),
                  dry, bak, out)

\* the loop body counting a file as modified in a real run only
LoopBodyRealOnly(d, st, file_path, dry, bak, out) ==
  LET r == process_file(d, [st EXCEPT !.files_processed = @ + 1], file_path, dry, bak, out)
  IN  IF r.ret /\ ~dry THEN [r EXCEPT !.stats.files_modified = @ + 1] ELSE r

\* lines 425-427: one iteration of the loop of run()
LoopBody(d, st, file_path, dry, bak, out) ==
  LET r == process_file(d, [st EXCEPT !.files_processed = @ + 1], file_path, dry, bak, out)
  IN  IF r.ret THEN [r EXCEPT !.stats.files_modified = @ + 1] ELSE r

\* main: sys.exit(0) if run() returned True, sys.exit(1) otherwise
ExitCode(run_returned) == IF run_returned THEN 0 ELSE 1

(***************************************************************************)
(* SpecRun: invocations of the migration tool, one after the other, over   *)
(* an articles directory.                                                  *)
(***************************************************************************)
\* run(): the articles directory does not exist
RunMissingDir ==
  /\ pc = "main"
  /\ ~dir_exists
  /\ pc' = "exit"
  /\ exit_code' = ExitCode(FALSE)
  /\ UNCHANGED <<stats, dir_exists, dir, dry_run, backup, markdown_files, results, io_log,
                 nruns, faults>>
  /\ UNCHANGED migrateVars
  /\ UNCHANGED analyzeVars

\* run() returning True on a directory without markdown files
RunNoFilesSucceeds ==
  /\ pc = "main"
  /\ dir_exists
  /\ MarkdownFiles(dir) = {<< >>}
  /\ pc' = "exit"
  /\ exit_code' = ExitCode(TRUE)
  /\ UNCHANGED <<stats, dir_exists, dir, dry_run, backup, markdown_files, results, io_log,
                 nruns, faults>>
  /\ UNCHANGED migrateVars
  /\ UNCHANGED analyzeVars

\* run(): the directory holds no markdown file
RunNoFiles ==
  /\ pc = "main"
  /\ dir_exists
  /\ MarkdownFiles(dir) = {<< >>}
  /\ pc' = "exit"
  /\ exit_code' = ExitCode(FALSE)
  /\ UNCHANGED <<stats, dir_exists, dir, dry_run, backup, markdown_files, results, io_log,
                 nruns, faults>>
  /\ UNCHANGED migrateVars
  /\ UNCHANGED analyzeVars

\* run(): the file list is built and the loop entered
RunBegin ==
  /\ pc = "main"
  /\ dir_exists
  /\ \E files \in MarkdownFiles(dir) :
       /\ files # << >>
       /\ markdown_files' = files
  /\ pc' = "loop"
  /\ UNCHANGED <<stats, dir_exists, dir, dry_run, backup, results, io_log, exit_code, nruns,
                 faults>>
  /\ UNCHANGED migrateVars
  /\ UNCHANGED analyzeVars

\* the loop of run() given up at the first file whose processing raised
ProcessFileAbortsOnError ==
  /\ pc = "loop"
  /\ markdown_files # << >>
  /\ \E out \in Outcomes :
       LET file_path == Head(markdown_files)
           r == LoopBody(dir, stats, file_path, dry_run, backup, out)
       IN  /\ out = AllOk \/ (r.error /\ faults < MaxFaults)
           /\ faults' = IF r.error THEN faults + 1 ELSE faults
           /\ stats' = r.stats
           /\ dir' = r.dir
           /\ results' = Append(results, [file |-> file_path, ret |-> r.ret,
                                          error |-> r.error])
           /\ io_log' = io_log \o r.io
           /\ markdown_files' = IF r.error THEN << >> ELSE Tail(markdown_files)
  /\ UNCHANGED <<dir_exists, dry_run, backup, pc, exit_code, nruns>>
  /\ UNCHANGED migrateVars
  /\ UNCHANGED analyzeVars

\* run(): one iteration of the loop, process_file included.  Either every
\* access to storage succeeds, or the one that out names fails and the
\* except clause runs.
ProcessFile ==
  /\ pc = "loop"
  /\ markdown_files # << >>
  /\ \E out \in Outcomes :
       LET file_path == Head(markdown_files)
           r == LoopBody(dir, stats, file_path, dry_run, backup, out)
       IN  /\ out = AllOk \/ (r.error /\ faults < MaxFaults)
           /\ faults' = IF r.error THEN faults + 1 ELSE faults
           /\ stats' = r.stats
           /\ dir' = r.dir
           /\ results' = Append(results, [file |-> file_path, ret |-> r.ret,
                                          error |-> r.error])
           /\ io_log' = io_log \o r.io
  /\ markdown_files' = Tail(markdown_files)
  /\ UNCHANGED <<dir_exists, dry_run, backup, pc, exit_code, nruns>>
  /\ UNCHANGED migrateVars
  /\ UNCHANGED analyzeVars

\* run(): the loop is over, the summary is printed, run() returns True
RunFinish ==
  /\ pc = "loop"
  /\ markdown_files = << >>
  /\ pc' = "exit"
  /\ exit_code' = ExitCode(TRUE)
  /\ UNCHANGED <<stats, dir_exists, dir, dry_run, backup, markdown_files, results, io_log,
                 nruns, faults>>
  /\ UNCHANGED migrateVars
  /\ UNCHANGED analyzeVars

\* the tool is invoked again on the directory as the previous run left it:
\* a new TagCategoryMigrator with its own options and statistics
Invoke ==
  /\ pc = "exit"
  /\ nruns < MaxRuns
  /\ nruns' = nruns + 1
  /\ dry_run' \in BOOLEAN
  /\ backup' \in BOOLEAN
  /\ stats' = InitStats
  /\ pc' = "main"
  /\ markdown_files' = << >>
  /\ results' = << >>
  /\ io_log' = << >>
  /\ exit_code' = -1
  /\ UNCHANGED <<dir_exists, dir, faults>>
  /\ UNCHANGED migrateVars
  /\ UNCHANGED analyzeVars

InitRun ==
  /\ stats = InitStats
  /\ input = [fn |-> "none", list |-> << >>]
  /\ call = NoCall
  /\ ncalls = 0
  /\ dir_exists \in BOOLEAN
  /\ dir \in (IF dir_exists THEN Directories ELSE {<< >>})
  /\ dry_run \in BOOLEAN
  /\ backup \in BOOLEAN
  /\ pc = "main"
  /\ markdown_files = << >>
  /\ results = << >>
  /\ io_log = << >>
  /\ exit_code = -1
  /\ nruns = 1
  /\ faults = 0
  /\ AnalyzeIdle

NextRun ==
  \/ RunMissingDir
  \/ RunNoFiles
  \/ RunBegin
  \/ ProcessFile
  \/ RunFinish
  \/ Invoke

SpecRun == InitRun /\ [][NextRun]_vars

\* the steps of one invocation: main() and run() execute statement after
\* statement until sys.exit
RunStep ==
  \/ RunMissingDir
  \/ RunNoFiles
  \/ RunBegin
  \/ ProcessFile
  \/ RunFinish

\* one invocation of the tool, running on to its exit: a started run is a
\* sequential program whose next statement is executed
SpecRunFair == InitRun /\ [][RunStep]_vars /\ WF_vars(RunStep)

(***************************************************************************)
(* SpecPredict: the tool run with --dry-run and then, on the directory as  *)
(* it is, without.  call holds the directory the dry run went over and     *)
(* what it reported: its statistics, the value process_file returned for   *)
(* every file, and its exit code.                                          *)
(***************************************************************************)
\* the second invocation, without --dry-run
RunForReal ==
  /\ pc = "exit"
  /\ dry_run
  /\ nruns < MaxRuns
  /\ nruns' = nruns + 1
  /\ call' = [fn |-> "dry_run", arg |-> [backup |-> backup, dir |-> dir],
              ret |-> [stats |-> stats, results |-> results, exit_code |-> exit_code]]
  /\ dry_run' = FALSE
  /\ backup' \in BOOLEAN
  /\ stats' = InitStats
  /\ pc' = "main"
  /\ markdown_files' = << >>
  /\ results' = << >>
  /\ io_log' = << >>
  /\ exit_code' = -1
  /\ UNCHANGED <<dir_exists, dir, faults, input, ncalls>>
  /\ UNCHANGED analyzeVars

InitPredict == InitRun /\ dry_run

NextPredict ==
  \/ RunMissingDir
  \/ RunNoFiles
  \/ RunBegin
  \/ ProcessFile
  \/ RunFinish
  \/ RunForReal

SpecPredict == InitPredict /\ [][NextPredict]_vars

(***************************************************************************)
(* The analysis tool.  A Counter and a defaultdict are functions on the    *)
(* keys they hold.                                                         *)
(***************************************************************************)
\* TagCategoryAnalyzer.__init__
NewAnalyzer ==
  [tags_counter |-> << >>, categories_counter |-> << >>, articles_data |-> << >>,
   tag_cooccurrence |-> << >>, category_articles |-> << >>, tag_articles |-> << >>]

\* counter[key], which is 0 for a key the Counter does not hold
Count(counter, key) == IF key \in DOMAIN counter THEN counter[key] ELSE 0

\* counter[key] += 1
Incremented(counter, key) ==
  [k \in DOMAIN counter \cup {key} |->
     IF k = key THEN Count(counter, key) + 1 ELSE counter[k]]

\* lists[key].append(title) on a defaultdict(list)
Appended(lists, key, title) ==
  [k \in DOMAIN lists \cup {key} |->
     IF k = key THEN Append(IF key \in DOMAIN lists THEN lists[key] ELSE << >>, title)
     ELSE lists[k]]

\* cooccurrence[tag1][tag2] += 1 on a defaultdict(Counter)
CooccurrenceIncremented(cooccurrence, tag1, tag2) ==
  [k \in DOMAIN cooccurrence \cup {tag1} |->
     IF k = tag1
       THEN Incremented(IF tag1 \in DOMAIN cooccurrence THEN cooccurrence[tag1] ELSE << >>,
                        tag2)
       ELSE cooccurrence[k]]

\* lines 76-78: the loop over the tags, from position i
RECURSIVE CountTags(_, _, _, _)
CountTags(an, tags, title, i) ==
  IF i > Len(tags) THEN an
  ELSE CountTags([an EXCEPT !.tags_counter = Incremented(@, tags[i]),
                            !.tag_articles = Appended(@, tags[i], title)],
                 tags, title, i + 1)

\* lines 80-82: the loop over the categories, from position i
RECURSIVE CountCategories(_, _, _, _)
CountCategories(an, categories, title, i) ==
  IF i > Len(categories) THEN an
  ELSE CountCategories([an EXCEPT !.categories_counter = Incremented(@, categories[i]),
                                  !.category_articles = Appended(@, categories[i], title)],
                       categories, title, i + 1)

\* the loops over the pairs counting tag2 for tag1 only
RECURSIVE CountPairsOneWay(_, _, _, _)
CountPairsOneWay(cooccurrence, tags, i, j) ==
  IF i > Len(tags) THEN cooccurrence
  ELSE IF j > Len(tags) THEN CountPairsOneWay(cooccurrence, tags, i + 1, i + 2)
  ELSE CountPairsOneWay(CooccurrenceIncremented(cooccurrence, tags[i], tags[j]),
                        tags, i, j + 1)

\* lines 85-88: the loops over the pairs tags[i], tags[j] with i < j
RECURSIVE CountPairs(_, _, _, _)
CountPairs(cooccurrence, tags, i, j) ==
  IF i > Len(tags) THEN cooccurrence
  ELSE IF j > Len(tags) THEN CountPairs(cooccurrence, tags, i + 1, i + 2)
  ELSE CountPairs(
         CooccurrenceIncremented(CooccurrenceIncremented(cooccurrence, tags[i], tags[j]),
                                 tags[j], tags[i]),
         tags, i, j + 1)

\* analyze_file without the "if not frontmatter: return" test
analyze_file_unguarded(an, d, file_path, out) ==
  IF out.read # "ok" THEN [an |-> an, error |-> TRUE]
  ELSE
    LET frontmatter == parse_frontmatter(d[file_path]).frontmatter
        tags == frontmatter.tags
        categories == frontmatter.categories
        title == file_path[1]
    IN
    IF "tags" \in frontmatter.null THEN [an |-> an, error |-> TRUE]
    ELSE
      LET an1 == CountTags(an, tags, title, 1) IN
      IF "categories" \in frontmatter.null THEN [an |-> an1, error |-> TRUE]
      ELSE
        LET an2 == CountCategories(an1, categories, title, 1)
            an3 == [an2 EXCEPT !.tag_cooccurrence = CountPairs(@, tags, 1, 2)]
            article_data ==
              [file |-> file_path, title |-> title, tags |-> tags,
               categories |-> categories, tag_count |-> Len(tags),
               category_count |-> Len(categories)]
        IN  [an |-> [an3 EXCEPT !.articles_data = Append(@, article_data)],
             error |-> FALSE]

\* analyze_file: the analyzer afterwards and whether the except clause ran.
\* Iterating a null 'tags' or 'categories' raises TypeError.
analyze_file(an, d, file_path, out) ==
  IF out.read # "ok" THEN [an |-> an, error |-> TRUE]
  ELSE
    LET frontmatter == parse_frontmatter(d[file_path]).frontmatter
        tags == frontmatter.tags
        categories == frontmatter.categories
        title == file_path[1]
    IN
    IF frontmatter.empty THEN [an |-> an, error |-> FALSE]
    ELSE IF "tags" \in frontmatter.null THEN [an |-> an, error |-> TRUE]
    ELSE
      LET an1 == CountTags(an, tags, title, 1) IN
      IF "categories" \in frontmatter.null THEN [an |-> an1, error |-> TRUE]
      ELSE
        LET an2 == CountCategories(an1, categories, title, 1)
            an3 == [an2 EXCEPT !.tag_cooccurrence = CountPairs(@, tags, 1, 2)]
            article_data ==
              [file |-> file_path, title |-> title, tags |-> tags,
               categories |-> categories, tag_count |-> Len(tags),
               category_count |-> Len(categories)]
        IN  [an |-> [an3 EXCEPT !.articles_data = Append(@, article_data)],
             error |-> FALSE]

(***************************************************************************)
(* get_summary_stats.  Averages are in hundredths, as round(x, 2) leaves   *)
(* them (half to even); None is NoArticle.                                 *)
(***************************************************************************)
RECURSIVE SumOver(_, _)
SumOver(f, S) ==
  IF S = {} THEN 0
  ELSE LET x == CHOOSE y \in S : TRUE IN f[x] + SumOver(f, S \ {x})

\* round(total / n, 2), in hundredths
Round2(total, n) ==
  LET q == (100 * total) \div n
      r == (100 * total) % n
  IN  IF 2 * r > n \/ (2 * r = n /\ q % 2 = 1) THEN q + 1 ELSE q

Average(total, n) == IF n > 0 THEN Round2(total, n) ELSE 0

\* a descending sort that puts the later of two equal articles first
RECURSIVE SortedLaterFirst(_)
SortedLaterFirst(articles) ==
  IF articles = << >> THEN << >>
  ELSE LET front == SortedLaterFirst(SubSeq(articles, 1, Len(articles) - 1))
           last == articles[Len(articles)]
           keep == Cardinality({i \in DOMAIN front : front[i].tag_count > last.tag_count})
       IN  SubSeq(front, 1, keep) \o <<last>> \o SubSeq(front, keep + 1, Len(front))

\* sorted(articles, key=tag_count, reverse=True): descending and stable
RECURSIVE SortedByTagCount(_)
SortedByTagCount(articles) ==
  IF articles = << >> THEN << >>
  ELSE LET front == SortedByTagCount(SubSeq(articles, 1, Len(articles) - 1))
           last == articles[Len(articles)]
           keep == Cardinality({i \in DOMAIN front : front[i].tag_count >= last.tag_count})
       IN  SubSeq(front, 1, keep) \o <<last>> \o SubSeq(front, keep + 1, Len(front))

NoArticle ==
  [file |-> << >>, title |-> "None", tags |-> << >>, categories |-> << >>,
   tag_count |-> -1, category_count |-> -1]

get_summary_stats(an) ==
  LET total_articles == Len(an.articles_data)
      articles_by_tag_count == SortedByTagCount(an.articles_data)
      tag_counts == [i \in DOMAIN an.articles_data |-> Len(an.articles_data[i].tags)]
      category_counts ==
        [i \in DOMAIN an.articles_data |-> Len(an.articles_data[i].categories)]
  IN
  [total_articles |-> total_articles,
   total_tags |-> Cardinality(DOMAIN an.tags_counter),
   total_categories |-> Cardinality(DOMAIN an.categories_counter),
   avg_tags_per_article |-> Average(SumOver(tag_counts, DOMAIN tag_counts), total_articles),
   avg_categories_per_article |->
     Average(SumOver(category_counts, DOMAIN category_counts), total_articles),
   most_tagged_article |->
     IF articles_by_tag_count # << >> THEN articles_by_tag_count[1] ELSE NoArticle,
   least_tagged_article |->
     IF articles_by_tag_count # << >>
       THEN articles_by_tag_count[Len(articles_by_tag_count)] ELSE NoArticle,
   singleton_tag_list |-> {tag \in DOMAIN an.tags_counter : an.tags_counter[tag] = 1},
   singleton_category_list |->
     {cat \in DOMAIN an.categories_counter : an.categories_counter[cat] = 1}]

(***************************************************************************)
(* find_redundant_tags.  The candidates of tag1 are a set of entries, one  *)
(* for each "tag2 (appears together c/n times)"; a tag without candidates  *)
(* has no key.  cooccur_count >= tag1_count * 0.8 on floats agrees with    *)
(* 5 * cooccur_count >= 4 * tag1_count on the integers a run can reach.    *)
(***************************************************************************)
\* the candidates of tag1 when the test uses the count of tag2
CandidatesByOther(an, tag1) ==
  {[tag |-> tag2, together |-> an.tag_cooccurrence[tag1][tag2],
    of |-> Count(an.tags_counter, tag1)] :
     tag2 \in {t \in DOMAIN an.tag_cooccurrence[tag1] :
                5 * an.tag_cooccurrence[tag1][t] >= 4 * Count(an.tags_counter, t)}}

\* lines 183-189: the entries appended to redundant_candidates[tag1]
Candidates(an, tag1) ==
  {[tag |-> tag2, together |-> an.tag_cooccurrence[tag1][tag2],
    of |-> Count(an.tags_counter, tag1)] :
     tag2 \in {t \in DOMAIN an.tag_cooccurrence[tag1] :
                5 * an.tag_cooccurrence[tag1][t] >= 4 * Count(an.tags_counter, tag1)}}

find_redundant_tags(an) ==
  [tag1 \in {t \in DOMAIN an.tag_cooccurrence : Candidates(an, t) # {}} |->
     Candidates(an, tag1)]

(***************************************************************************)
(* generate_report.  A report is what it lists: the tag and category       *)
(* frequency entries, the singleton lists and the redundancy candidates   *)
(* (the text report prints those of the first ten tags, more than a run    *)
(* here has).  The order of the entries, which --sort sets, its headings   *)
(* and its other sections are left out.                                    *)
(***************************************************************************)
\* counter.items()
Items(counter) == {[name |-> k, count |-> counter[k]] : k \in DOMAIN counter}

\* the items that pass "if count >= min_count"
AtLeast(items, min_count) == {e \in items : e.count >= min_count}

generate_text_report(an, summary_stats, min_count) ==
  [format |-> "text",
   tags |-> AtLeast(Items(an.tags_counter), min_count),
   categories |-> AtLeast(Items(an.categories_counter), min_count),
   singleton_tag_list |-> summary_stats.singleton_tag_list,
   singleton_category_list |-> summary_stats.singleton_category_list,
   redundant_tags |-> find_redundant_tags(an)]

generate_json_report(an, summary_stats, min_count) ==
  [format |-> "json",
   tags |-> Items(an.tags_counter),
   categories |-> Items(an.categories_counter),
   singleton_tag_list |-> summary_stats.singleton_tag_list,
   singleton_category_list |-> summary_stats.singleton_category_list,
   redundant_tags |-> find_redundant_tags(an)]

generate_csv_report(an, summary_stats, min_count) ==
  [format |-> "csv",
   tags |-> AtLeast(Items(an.tags_counter), min_count),
   categories |-> AtLeast(Items(an.categories_counter), min_count),
   singleton_tag_list |-> {},
   singleton_category_list |-> {},
   redundant_tags |-> << >>]

generate_report(an, output_format, min_count) ==
  LET summary_stats == get_summary_stats(an) IN
  IF output_format = "json" THEN generate_json_report(an, summary_stats, min_count)
  ELSE IF output_format = "csv" THEN generate_csv_report(an, summary_stats, min_count)
  ELSE generate_text_report(an, summary_stats, min_count)

\* the command line of the analysis tool: --output and --min-count
AnalyzeOptions ==
  [fn : {"analyze"}, output : {"text", "json", "csv"}, min_count : 1..MaxMinCount]

(***************************************************************************)
(* SpecAnalyze: one invocation of the analysis tool over an articles       *)
(* directory.                                                              *)
(***************************************************************************)
NullCategories ==
  [kind |-> "fm", categories |-> << >>, tags |-> <<"nepal">>, null |-> {"categories"},
   body |-> "\nbody\n"]

\* the contents an article file may have when the analysis tool runs
AnalyzeContents ==
  {BadYaml, Text, NullCategories,
   Article(<<"technology">>, <<"golang", "nepal">>),
   Article(<<"culture">>, <<"nepal", "golang", "rust">>),
   Article(<< >>, <<"golang", "golang">>),
   Article(<<"technology">>, <<"golang", "nepal", "golang">>)}

AnalyzeDirectories == UNION {[S -> AnalyzeContents] : S \in SUBSET ArticleNames}

\* run_analysis(): the articles directory does not exist; main exits with 1
AnalysisMissingDir ==
  /\ pc = "main"
  /\ ~dir_exists
  /\ pc' = "exit"
  /\ exit_code' = 1
  /\ UNCHANGED <<stats, dir_exists, dir, dry_run, backup, markdown_files, results, io_log,
                 nruns, faults>>
  /\ UNCHANGED migrateVars
  /\ UNCHANGED analyzeVars

\* run_analysis() returning True on a directory without markdown files
AnalysisNoFilesReports ==
  /\ pc = "main"
  /\ dir_exists
  /\ MarkdownFiles(dir) = {<< >>}
  /\ summary' = get_summary_stats(analyzer)
  /\ pc' = "exit"
  /\ exit_code' = 0
  /\ UNCHANGED <<stats, dir_exists, dir, dry_run, backup, markdown_files, results, io_log,
                 nruns, faults, analyzer>>
  /\ UNCHANGED migrateVars

\* run_analysis(): the directory holds no markdown file; main exits with 1
AnalysisNoFiles ==
  /\ pc = "main"
  /\ dir_exists
  /\ MarkdownFiles(dir) = {<< >>}
  /\ pc' = "exit"
  /\ exit_code' = 1
  /\ UNCHANGED <<stats, dir_exists, dir, dry_run, backup, markdown_files, results, io_log,
                 nruns, faults>>
  /\ UNCHANGED migrateVars
  /\ UNCHANGED analyzeVars

\* run_analysis(): the file list is built and the loop entered
AnalysisBegin ==
  /\ pc = "main"
  /\ dir_exists
  /\ \E files \in MarkdownFiles(dir) :
       /\ files # << >>
       /\ markdown_files' = files
  /\ pc' = "loop"
  /\ UNCHANGED <<stats, dir_exists, dir, dry_run, backup, results, io_log, exit_code, nruns,
                 faults>>
  /\ UNCHANGED migrateVars
  /\ UNCHANGED analyzeVars

\* run_analysis(): one iteration of the loop, analyze_file included
AnalyzeFile ==
  /\ pc = "loop"
  /\ markdown_files # << >>
  /\ \E read \in {"ok", "error"} :
       LET file_path == Head(markdown_files)
           r == analyze_file(analyzer, dir, file_path, [AllOk EXCEPT !.read = read])
       IN  /\ read = "ok" \/ faults < MaxFaults
           /\ faults' = IF read = "ok" THEN faults ELSE faults + 1
           /\ analyzer' = r.an
           /\ results' = Append(results, [file |-> file_path, ret |-> FALSE,
                                          error |-> r.error])
  /\ markdown_files' = Tail(markdown_files)
  /\ UNCHANGED <<stats, dir_exists, dir, dry_run, backup, pc, io_log, exit_code, nruns,
                 summary>>
  /\ UNCHANGED migrateVars

\* run_analysis() returns True; main generates the report, prints it and
\* ends, which is exit code 0
Report ==
  /\ pc = "loop"
  /\ markdown_files = << >>
  /\ summary' = get_summary_stats(analyzer)
  /\ call' = [fn |-> "generate_report", arg |-> input,
              ret |-> generate_report(analyzer, input.output, input.min_count)]
  /\ pc' = "exit"
  /\ exit_code' = 0
  /\ UNCHANGED <<stats, dir_exists, dir, dry_run, backup, markdown_files, results, io_log,
                 nruns, faults, analyzer, input, ncalls>>

InitAnalyze ==
  /\ stats = InitStats
  /\ input \in AnalyzeOptions
  /\ call = NoCall
  /\ ncalls = 0
  /\ dir_exists \in BOOLEAN
  /\ dir \in (IF dir_exists THEN AnalyzeDirectories ELSE {<< >>})
  /\ dry_run = FALSE
  /\ backup = FALSE
  /\ pc = "main"
  /\ markdown_files = << >>
  /\ results = << >>
  /\ io_log = << >>
  /\ exit_code = -1
  /\ nruns = 1
  /\ faults = 0
  /\ analyzer = NewAnalyzer
  /\ summary = << >>

NextAnalyze ==
  \/ AnalysisMissingDir
  \/ AnalysisNoFiles
  \/ AnalysisBegin
  \/ AnalyzeFile
  \/ Report

SpecAnalyze == InitAnalyze /\ [][NextAnalyze]_vars

(***************************************************************************)
(* Vocabulary of the properties of migrate_tags / migrate_categories.      *)
(***************************************************************************)
Called == call.fn # "none"

TableOf(fn) == IF fn = "migrate_tags" THEN tag_mappings ELSE category_mappings

\* what the table makes of a value: its target, None, or the value itself
Image(fn, v) == IF v \in DOMAIN TableOf(fn) THEN TableOf(fn)[v] ELSE v

\* the positions of list whose value yields v
Yielding(fn, list, v) == {i \in DOMAIN list : Image(fn, list[i]) = v}

Min(S) == CHOOSE x \in S : \A y \in S : x <= y

\* the images of a list, removed values deleted
RECURSIVE Images(_, _)
Images(fn, list) ==
  IF list = << >> THEN << >>
  ELSE LET v == Image(fn, Head(list)) IN
       (IF v = None THEN << >> ELSE <<v>>) \o Images(fn, Tail(list))

\* a list reduced to the first occurrence of each value
RECURSIVE FirstOccurrences(_)
FirstOccurrences(list) ==
  IF list = << >> THEN << >>
  ELSE LET front == FirstOccurrences(SubSeq(list, 1, Len(list) - 1))
           last == list[Len(list)]
       IN  IF InSeq(last, front) THEN front ELSE Append(front, last)

\* positions whose value the table replaces by a different one
Changed(fn, list) == {i \in DOMAIN list : Image(fn, list[i]) \notin {None, list[i]}}

\* positions whose value the table removes
Removed(fn, list) == {i \in DOMAIN list : Image(fn, list[i]) = None}

ConsolidatedOf(st, fn) ==
  IF fn = "migrate_tags" THEN st.tags_consolidated ELSE st.categories_consolidated

(***************************************************************************)
(* C1: migration is idempotent: a call of migrate_tags or                  *)
(* migrate_categories on the result of the previous call returns its       *)
(* argument unchanged.                                                     *)
(***************************************************************************)
C1_Idempotent == (Called /\ call.again) => call.ret = call.arg

(***************************************************************************)
(* C4: dedup-on-merge: every value some input value yields is in the       *)
(* result exactly once, and the results stand in the order of the first    *)
(* input positions yielding them; [go, go-programming, golang] gives       *)
(* exactly [golang].                                                       *)
(***************************************************************************)
C4_DedupOnMerge ==
  Called =>
    /\ \A i \in DOMAIN call.arg :
         Image(call.fn, call.arg[i]) # None =>
           Cardinality({p \in DOMAIN call.ret :
                          call.ret[p] = Image(call.fn, call.arg[i])}) = 1
    /\ \A p, q \in DOMAIN call.ret :
         p < q => /\ Yielding(call.fn, call.arg, call.ret[p]) # {}
                  /\ Yielding(call.fn, call.arg, call.ret[q]) # {}
                  /\ Min(Yielding(call.fn, call.arg, call.ret[p]))
                       < Min(Yielding(call.fn, call.arg, call.ret[q]))
    /\ (call.fn = "migrate_tags" /\ call.arg = <<"go", "go-programming", "golang">>)
         => call.ret = <<"golang">>

C4_Witness ==
  /\ call.fn = "migrate_tags"
  /\ call.arg = <<"go", "go-programming", "golang">>
  /\ call.ret = <<"golang">>

(***************************************************************************)
(* C5: drop semantics: a tag the table maps to None is not in the result   *)
(* of migrate_tags, and the call adds to tags_removed the number of        *)
(* positions of its argument holding such a tag; [thamel, nepal] gives     *)
(* [nepal].                                                                *)
(***************************************************************************)
C5_DropSemantics ==
  [][call'.fn = "migrate_tags" =>
       /\ \A p \in DOMAIN call'.ret :
            ~(call'.ret[p] \in DOMAIN tag_mappings /\ tag_mappings[call'.ret[p]] = None)
       /\ stats'.tags_removed
            = stats.tags_removed + Cardinality(Removed("migrate_tags", call'.arg))
       /\ call'.arg = <<"thamel", "nepal">> => call'.ret = <<"nepal">>]_vars

C5_Witness ==
  /\ call.fn = "migrate_tags"
  /\ call.arg = <<"thamel", "nepal">>
  /\ call.ret = <<"nepal">>
  /\ stats.tags_removed = 1

(***************************************************************************)
(* C6: for a non-empty argument the result is the argument with each value *)
(* replaced by its image (unmapped values kept, removed values deleted)    *)
(* and reduced to first occurrences, and the argument list is left as it   *)
(* was.                                                                    *)
(***************************************************************************)
C6_MappedFirstOccurrences ==
  (Called /\ call.arg # << >>) =>
    /\ call.ret = FirstOccurrences(Images(call.fn, call.arg))
    /\ call.after = call.arg

C6_Witness ==
  /\ call.fn = "migrate_categories"
  /\ call.arg = <<"misc", "General", "technology">>
  /\ call.ret = <<"misc", "technology">>

(***************************************************************************)
(* C7: a call adds to the consolidated counter the number of positions of  *)
(* its argument whose value is replaced by a different one.                *)
(***************************************************************************)
C7_CountsEveryChanged ==
  [][call'.fn # "none" =>
       ConsolidatedOf(stats', call'.fn)
         = ConsolidatedOf(stats, call'.fn) + Cardinality(Changed(call'.fn, call'.arg))]_vars

(***************************************************************************)
(* Article text.  A text is a string; SubSeq, Len and \o act on its        *)
(* characters.                                                             *)
(***************************************************************************)
\* content.startswith(prefix)
StartsWith(s, prefix) == Len(s) >= Len(prefix) /\ SubSeq(s, 1, Len(prefix)) = prefix

\* content.find(sep) + 1: where sep first occurs in s, 0 when it does not
Find(s, sep) ==
  LET hits == {i \in 1..(Len(s) - Len(sep) + 1) : SubSeq(s, i, i + Len(sep) - 1) = sep}
  IN  IF hits = {} THEN 0 ELSE CHOOSE i \in hits : \A j \in hits : i <= j

\* s.split(sep, maxsplit); maxsplit = -1 is no limit
RECURSIVE Split(_, _, _)
Split(s, sep, maxsplit) ==
  LET i == Find(s, sep) IN
  IF maxsplit = 0 \/ i = 0 THEN <<s>>
  ELSE <<SubSeq(s, 1, i - 1)>> \o Split(SubSeq(s, i + Len(sep), Len(s)), sep, maxsplit - 1)

Whitespace == {" ", "\t", "\n", "\r"}

\* s.lstrip(), s.rstrip(), s.strip()
RECURSIVE LStrip(_)
LStrip(s) ==
  IF Len(s) > 0 /\ SubSeq(s, 1, 1) \in Whitespace THEN LStrip(SubSeq(s, 2, Len(s))) ELSE s

RECURSIVE RStrip(_)
RStrip(s) ==
  IF Len(s) > 0 /\ SubSeq(s, Len(s), Len(s)) \in Whitespace
    THEN RStrip(SubSeq(s, 1, Len(s) - 1))
    ELSE s

Strip(s) == LStrip(RStrip(s))

\* sep.join(items)
RECURSIVE Join(_, _)
Join(items, sep) ==
  IF items = << >> THEN ""
  ELSE IF Len(items) = 1 THEN items[1]
  ELSE items[1] \o sep \o Join(Tail(items), sep)

(***************************************************************************)
(* yaml.safe_load on the metadata texts that arise here: lines "key:       *)
(* value" with a plain, quoted, timestamp or flow-sequence value, a line   *)
(* "key:" followed by the "- item" lines of a block sequence, a document   *)
(* that is a block sequence or a plain scalar, and blank lines; no line is *)
(* indented.  A value                                                      *)
(* is a record: type "list" with items, type "str" or "timestamp" with     *)
(* text, or type "null".  A mapping is the sequence of its [key, value]    *)
(* entries in insertion order.                                             *)
(***************************************************************************)
ListValue(items) == [type |-> "list", items |-> items, text |-> ""]

StrValue(text) == [type |-> "str", items |-> << >>, text |-> text]

TimestampValue(text) == [type |-> "timestamp", items |-> << >>, text |-> text]

NullValue == [type |-> "null", items |-> << >>, text |-> ""]

Digits == {"0", "1", "2", "3", "4", "5", "6", "7", "8", "9"}

\* a quoted scalar without its quotes
Unquote(s) ==
  IF Len(s) >= 2 /\ SubSeq(s, 1, 1) \in {"'", "\""} /\ SubSeq(s, Len(s), Len(s)) = SubSeq(s, 1, 1)
    THEN SubSeq(s, 2, Len(s) - 1)
    ELSE s

\* the entries of a flow sequence "[a, 'b', ...]" without its brackets
FlowItems(inner) ==
  IF Strip(inner) = "" THEN << >>
  ELSE LET parts == Split(inner, ",", -1)
       IN  [i \in DOMAIN parts |-> Unquote(Strip(parts[i]))]

\* the value a scalar or flow sequence denotes; yyyy-mm-dd... resolves to a
\* timestamp
ScalarValue(s) ==
  IF s = "" THEN NullValue
  ELSE IF SubSeq(s, 1, 1) = "[" /\ SubSeq(s, Len(s), Len(s)) = "]"
    THEN ListValue(FlowItems(SubSeq(s, 2, Len(s) - 1)))
  ELSE IF Unquote(s) # s THEN StrValue(Unquote(s))
  ELSE IF Len(s) >= 10 /\ SubSeq(s, 1, 1) \in Digits /\ SubSeq(s, 5, 5) = "-"
            /\ SubSeq(s, 8, 8) = "-"
    THEN TimestampValue(s)
  ELSE StrValue(s)

\* dict[key] = value
Assigned(mapping, key, value) ==
  IF \E i \in DOMAIN mapping : mapping[i].key = key
    THEN [i \in DOMAIN mapping |->
            IF mapping[i].key = key THEN [key |-> key, value |-> value] ELSE mapping[i]]
    ELSE Append(mapping, [key |-> key, value |-> value])

HasKey(mapping, key) == \E i \in DOMAIN mapping : mapping[i].key = key

\* dict.get(key, default)
Get(mapping, key, default) ==
  IF HasKey(mapping, key)
    THEN mapping[CHOOSE i \in DOMAIN mapping : mapping[i].key = key].value
    ELSE default

\* the document so far: kind "none" (nothing yet), "map", "seq", "scalar" or
\* "error" (YAMLError); open is the key whose block sequence may go on
NoDocument == [kind |-> "none", mapping |-> << >>, open |-> ""]

YAMLError == [kind |-> "error", mapping |-> << >>, open |-> ""]

\* one more line of the metadata text
LoadLine(doc, line) ==
  LET colon == Find(line, ":") IN
  IF doc.kind = "error" \/ Strip(line) = "" THEN doc
  ELSE IF line = "-" \/ StartsWith(line, "- ")
    THEN IF doc.kind = "map" /\ doc.open # ""
           THEN LET sofar == Get(doc.mapping, doc.open, NullValue)
                    item == Unquote(Strip(SubSeq(line, 2, Len(line))))
                IN  [doc EXCEPT !.mapping =
                       Assigned(@, doc.open, ListValue(Append(sofar.items, item)))]
         ELSE IF doc.kind \in {"none", "seq"} THEN [doc EXCEPT !.kind = "seq"]
         ELSE YAMLError
  ELSE IF colon > 1 /\ (colon = Len(line) \/ SubSeq(line, colon + 1, colon + 1) = " ")
    THEN IF doc.kind \in {"none", "map"}
           THEN LET key == SubSeq(line, 1, colon - 1)
                    value == ScalarValue(Strip(SubSeq(line, colon + 1, Len(line))))
                IN  [kind |-> "map", mapping |-> Assigned(doc.mapping, key, value),
                     open |-> IF value.type = "null" THEN key ELSE ""]
         ELSE YAMLError
  ELSE IF doc.kind \in {"none", "scalar"} THEN [doc EXCEPT !.kind = "scalar"]
  ELSE YAMLError

RECURSIVE LoadLines(_, _, _)
LoadLines(doc, lines, i) ==
  IF i > Len(lines) THEN doc ELSE LoadLines(LoadLine(doc, lines[i]), lines, i + 1)

yaml_safe_load(text) == LoadLines(NoDocument, Split(text, "\n", -1), 1)

(***************************************************************************)
(* parse_frontmatter and serialize_frontmatter on article text.  The       *)
(* frontmatter returned is kind "map" with its entries, or kind "seq" /    *)
(* "scalar" when the metadata text is a YAML document of another type;     *)
(* the empty mapping is kind "map" without entries.                        *)
(***************************************************************************)
EmptyFrontmatter == [kind |-> "map", mapping |-> << >>]

\* "frontmatter or {}": None and the empty dict give {}
OrEmpty(doc) ==
  IF doc.kind = "none" THEN EmptyFrontmatter ELSE [kind |-> doc.kind, mapping |-> doc.mapping]

\* lines 266-273: the text after 'date:' on the first line that, stripped,
\* starts with 'date:'; found tells whether there is such a line
RECURSIVE DateLiteral(_, _)
DateLiteral(lines, i) ==
  IF i > Len(lines) THEN [found |-> FALSE, text |-> ""]
  ELSE LET line == Strip(lines[i]) IN
       IF StartsWith(line, "date:")
         THEN [found |-> TRUE, text |-> Strip(Split(line, "date:", 1)[2])]
         ELSE DateLiteral(lines, i + 1)

\* lines 259-275: the try block of the migrator's parse_frontmatter
ParsedBlock(content, parts) ==
  LET frontmatter_text == parts[2]
      doc == yaml_safe_load(frontmatter_text)
      date == DateLiteral(Split(frontmatter_text, "\n", -1), 1)
      mapping == IF doc.kind = "map" /\ HasKey(doc.mapping, "date") /\ date.found
                   THEN Assigned(doc.mapping, "date", StrValue(date.text))
                   ELSE doc.mapping
  IN  IF doc.kind = "error"
        THEN [frontmatter |-> EmptyFrontmatter, body |-> content]
        ELSE [frontmatter |-> OrEmpty([doc EXCEPT !.mapping = mapping]), body |-> parts[3]]

\* lines 252-262 (analyzer 44-52): whether yaml.safe_load is called, and the
\* text it is called with
DecoderInput(content) ==
  IF StartsWith(content, "---") /\ Len(Split(content, "---", 2)) >= 3
    THEN [decoded |-> TRUE, text |-> Split(content, "---", 2)[2]]
    ELSE [decoded |-> FALSE, text |-> ""]

\* TagCategoryMigrator.parse_frontmatter
parse_frontmatter_text(content) ==
  IF ~StartsWith(content, "---") THEN [frontmatter |-> EmptyFrontmatter, body |-> content]
  ELSE LET parts == Split(content, "---", 2) IN
       IF Len(parts) < 3 THEN [frontmatter |-> EmptyFrontmatter, body |-> content]
       ELSE ParsedBlock(content, parts)

\* the analyzer's parse_frontmatter taking a text with one '---' as a
\* metadata block without a body
analyzer_parse_unclosed(content) ==
  IF ~StartsWith(content, "---") THEN [frontmatter |-> EmptyFrontmatter, body |-> content]
  ELSE LET parts == Split(content, "---", 2)
           doc == yaml_safe_load(parts[2])
       IN  IF doc.kind = "error"
             THEN [frontmatter |-> EmptyFrontmatter, body |-> content]
             ELSE [frontmatter |-> OrEmpty(doc),
                   body |-> IF Len(parts) < 3 THEN "" ELSE parts[3]]

\* TagCategoryAnalyzer.parse_frontmatter
analyzer_parse_frontmatter_text(content) ==
  IF ~StartsWith(content, "---") THEN [frontmatter |-> EmptyFrontmatter, body |-> content]
  ELSE LET parts == Split(content, "---", 2) IN
       IF Len(parts) < 3 THEN [frontmatter |-> EmptyFrontmatter, body |-> content]
       ELSE LET doc == yaml_safe_load(parts[2]) IN
            IF doc.kind = "error"
              THEN [frontmatter |-> EmptyFrontmatter, body |-> content]
              ELSE [frontmatter |-> OrEmpty(doc), body |-> parts[3]]

\* yaml.dump({key: value}, default_flow_style=False, sort_keys=False).strip()
yaml_dump(key, value) ==
  IF value.type = "null" THEN key \o ": null"
  ELSE IF value.type = "list"
    THEN IF value.items = << >> THEN key \o ": []"
         ELSE key \o ":\n" \o Join([i \in DOMAIN value.items |-> "- " \o value.items[i]], "\n")
  ELSE key \o ": " \o value.text

\* lines 292-302: the line (or lines) of one field
FieldLines(key, value) ==
  IF key \in {"tags", "categories"} /\ value.type = "list"
    THEN IF value.items # << >>
           THEN key \o ": [" \o Join(value.items, ", ") \o "]"
           ELSE key \o ": []"
  ELSE IF key = "date" THEN key \o ": " \o value.text
  ELSE yaml_dump(key, value)

\* TagCategoryMigrator.serialize_frontmatter on a mapping
serialize_frontmatter_text(frontmatter, body) ==
  IF frontmatter.mapping = << >> THEN body
  ELSE LET lines == <<"---">>
                    \o [i \in DOMAIN frontmatter.mapping |->
                          FieldLines(frontmatter.mapping[i].key, frontmatter.mapping[i].value)]
                    \o <<"---">>
       IN  Join(lines, "\n") \o body

\* the values "for x in value" yields; iterable is FALSE where it raises
\* TypeError (None, a date); a string yields its characters
Iterated(value) ==
  IF value.type = "list" THEN [iterable |-> TRUE, items |-> value.items]
  ELSE IF value.type = "str"
    THEN [iterable |-> TRUE,
          items |-> [i \in 1..Len(value.text) |-> SubSeq(value.text, i, i)]]
  ELSE [iterable |-> FALSE, items |-> << >>]

\* s.replace(old, new)
RECURSIVE Replaced(_, _, _)
Replaced(s, old, new) ==
  LET i == Find(s, old) IN
  IF i = 0 THEN s
  ELSE SubSeq(s, 1, i - 1) \o new \o Replaced(SubSeq(s, i + Len(old), Len(s)), old, new)

\* open(file_path, 'r').read(): in text mode the line ends '\r\n' and '\r'
\* are read as '\n'
UniversalNewlines(stored) == Replaced(Replaced(stored, "\r\n", "\n"), "\r", "\n")

\* open(file_path, 'w').write(text): '\n' is written as os.linesep, which is
\* '\n' on a POSIX system
WrittenText(text) == Replaced(text, "\n", "\n")

\* process_file from the text a file holds to the text it holds afterwards:
\* ret is the value returned, error whether the except clause ran, content
\* the text of the file afterwards when neither dry_run nor a failing write
\* intervenes
process_file_text(stored) ==
  LET content == UniversalNewlines(stored)
      parsed == parse_frontmatter_text(content)
      frontmatter == parsed.frontmatter
      unchanged == [ret |-> FALSE, error |-> FALSE, content |-> stored]
      raised == [ret |-> FALSE, error |-> TRUE, content |-> stored]
  IN
  IF frontmatter.kind = "map" /\ frontmatter.mapping = << >> THEN unchanged
  ELSE IF frontmatter.kind # "map" THEN raised
  ELSE
    LET original_categories == Get(frontmatter.mapping, "categories", ListValue(<< >>))
        original_tags == Get(frontmatter.mapping, "tags", ListValue(<< >>))
        categories == Iterated(original_categories)
        tags == Iterated(original_tags)
    IN
    IF ~categories.iterable \/ ~tags.iterable THEN raised
    ELSE
      LET new_categories == ListValue(migrate_categories(categories.items).new)
          new_tags == ListValue(migrate_tags(tags.items).new)
          categories_changed == original_categories # new_categories
          tags_changed == original_tags # new_tags
          with_categories == IF categories_changed
                               THEN Assigned(frontmatter.mapping, "categories", new_categories)
                               ELSE frontmatter.mapping
          updated == IF tags_changed
                       THEN Assigned(with_categories, "tags", new_tags)
                       ELSE with_categories
      IN
      IF ~categories_changed /\ ~tags_changed THEN unchanged
      ELSE [ret |-> TRUE, error |-> FALSE,
            content |-> WrittenText(serialize_frontmatter_text(
                                      [frontmatter EXCEPT !.mapping = updated], parsed.body))]

(***************************************************************************)
(* SpecText: the functions above applied to article texts put together     *)
(* from a first line, at most MaxFields metadata fields with distinct      *)
(* keys, a closing delimiter and a body.                                   *)
(***************************************************************************)
Openings == {"---\n", "----\n", ""}

Closings == {"---", ""}

Bodies == {"\nbody\n", "\r\nbody\r\n", "\n\nsee a---b\n---\nend  ", ""}

SampleFields ==
  {[key |-> "tags", text |-> "tags: [golang, rust]"],
   [key |-> "tags", text |-> "tags: ['golang', 'rust']"],
   [key |-> "tags", text |-> "tags:\n- go\n- rust"],
   [key |-> "tags", text |-> "tags:\n- go\n- c, cpp"],
   [key |-> "categories", text |-> "categories: [technology]"],
   [key |-> "categories", text |-> "categories: [\"Technology\"]"],
   [key |-> "date", text |-> "date: 2024-01-02T10:00:00Z"],
   [key |-> "title", text |-> "title: a---b"],
   [key |-> "title", text |-> "title: Hello"]}

FieldLists ==
  {fields \in SeqsUpTo(SampleFields, MaxFields) :
     \A i, j \in DOMAIN fields : fields[i].key = fields[j].key => i = j}

\* the metadata text: every field on a line (or lines) of its own
MetadataText(fields) == Join([i \in DOMAIN fields |-> fields[i].text \o "\n"], "")

Documents ==
  {[fields |-> fields,
    text |-> opening \o MetadataText(fields) \o closing \o body] :
     opening \in Openings, fields \in FieldLists, closing \in Closings, body \in Bodies}

TextCall(fn, ret) ==
  /\ call = NoCall
  /\ ncalls < MaxCalls
  /\ ncalls' = ncalls + 1
  /\ call' = [fn |-> fn, arg |-> input.text, ret |-> ret]
  /\ UNCHANGED <<stats, input>>
  /\ UNCHANGED runVars
  /\ UNCHANGED analyzeVars

ParseText == TextCall("parse_frontmatter", parse_frontmatter_text(input.text))

AnalyzerParseText ==
  TextCall("analyzer.parse_frontmatter", analyzer_parse_frontmatter_text(input.text))

\* parse_frontmatter followed by serialize_frontmatter, nothing changed in
\* between
RoundTripText ==
  LET parsed == parse_frontmatter_text(input.text) IN
  /\ parsed.frontmatter.kind = "map"
  /\ TextCall("round_trip", serialize_frontmatter_text(parsed.frontmatter, parsed.body))

ProcessFileText == TextCall("process_file", process_file_text(input.text))

InitText ==
  /\ stats = InitStats
  /\ input \in {[fn |-> "document", fields |-> d.fields, text |-> d.text] : d \in Documents}
  /\ call = NoCall
  /\ ncalls = 0
  /\ RunIdle
  /\ AnalyzeIdle

NextText ==
  \/ ParseText
  \/ AnalyzerParseText
  \/ RoundTripText
  \/ ProcessFileText

SpecText == InitText /\ [][NextText]_vars

(***************************************************************************)
(* The article generator.  random.choice and random.randint are choices    *)
(* among a sample of the titles and dates they can yield.                  *)
(***************************************************************************)
UpperCase == "ABCDEFGHIJKLMNOPQRSTUVWXYZ"

LowerCase == "abcdefghijklmnopqrstuvwxyz"

\* c.lower() for a character
LowerChar(c) ==
  IF \E i \in 1..Len(UpperCase) : SubSeq(UpperCase, i, i) = c
    THEN LET i == CHOOSE k \in 1..Len(UpperCase) : SubSeq(UpperCase, k, k) = c
         IN  SubSeq(LowerCase, i, i)
    ELSE c

\* c.isalnum() for a character
IsAlnum(c) ==
  \/ c \in Digits
  \/ \E i \in 1..Len(LowerCase) : SubSeq(LowerCase, i, i) = c \/ SubSeq(UpperCase, i, i) = c

\* line 465: title.lower()
RECURSIVE Lowered(_)
Lowered(s) == IF s = "" THEN "" ELSE LowerChar(SubSeq(s, 1, 1)) \o Lowered(SubSeq(s, 2, Len(s)))

\* line 466: the characters that are neither alphanumeric nor ' ' nor '-'
\* are dropped
RECURSIVE Cleaned(_)
Cleaned(s) ==
  IF s = "" THEN ""
  ELSE LET c == SubSeq(s, 1, 1)
       IN  (IF IsAlnum(c) \/ c \in {" ", "-"} THEN c ELSE "") \o Cleaned(SubSeq(s, 2, Len(s)))

\* s.split(): the words between runs of blanks
RECURSIVE Words(_)
Words(s) ==
  LET t == LStrip(s)
      blank == Find(t, " ")
  IN  IF t = "" THEN << >>
      ELSE IF blank = 0 THEN <<t>>
      ELSE <<SubSeq(t, 1, blank - 1)>> \o Words(SubSeq(t, blank + 1, Len(t)))

\* clean_title[:80]
Truncated(s, n) == IF Len(s) > n THEN SubSeq(s, 1, n) ELSE s

generate_filename(title, date) ==
  LET clean_title == Truncated(Join(Words(Cleaned(Lowered(title))), "-"), 80)
  IN  date \o "-" \o clean_title \o ".md"

\* titles the templates of TOPICS_POOL yield
SampleTitles ==
  {"Career Growth in DevOps",
   "CI/CD Pipeline Design with Node.js",
   "Is Docker Worth the Hype? A Developer's Perspective"}

\* article_date.strftime('%Y-%m-%d') for two of the days of the range
SampleDates == {"2024-01-02", "2025-06-30"}

\* main: the count is not positive
GenerateInvalid ==
  /\ pc = "main"
  /\ input.num_articles <= 0
  /\ pc' = "exit"
  /\ exit_code' = 1
  /\ UNCHANGED <<stats, dir_exists, dir, dry_run, backup, markdown_files, results, io_log,
                 nruns, faults>>
  /\ UNCHANGED migrateVars
  /\ UNCHANGED analyzeVars

\* generate_articles: os.makedirs(output_dir, exist_ok=True)
GenerateBegin ==
  /\ pc = "main"
  /\ input.num_articles > 0
  /\ dir_exists' = TRUE
  /\ pc' = "loop"
  /\ UNCHANGED <<stats, dir, dry_run, backup, markdown_files, results, io_log, exit_code,
                 nruns, faults>>
  /\ UNCHANGED migrateVars
  /\ UNCHANGED analyzeVars

\* generate_articles: one iteration of the loop, ncalls being i; the file is
\* created, or overwritten when the name is taken
GenerateArticle ==
  /\ pc = "loop"
  /\ ncalls < input.num_articles
  /\ \E title \in SampleTitles, date \in SampleDates :
       LET filename == generate_filename(title, date)
       IN  /\ dir' = Put(dir, filename, [title |-> title, date |-> date, i |-> ncalls])
           /\ results' = Append(results, [file |-> filename, ret |-> TRUE, error |-> FALSE])
  /\ ncalls' = ncalls + 1
  /\ UNCHANGED <<stats, input, call, dir_exists, dry_run, backup, pc, markdown_files, io_log,
                 exit_code, nruns, faults>>
  /\ UNCHANGED analyzeVars

\* generate_articles returns after range(num_articles); main ends
GenerateFinish ==
  /\ pc = "loop"
  /\ ncalls = input.num_articles
  /\ pc' = "exit"
  /\ exit_code' = 0
  /\ UNCHANGED <<stats, dir_exists, dir, dry_run, backup, markdown_files, results, io_log,
                 nruns, faults>>
  /\ UNCHANGED migrateVars
  /\ UNCHANGED analyzeVars

InitGenerate ==
  /\ stats = InitStats
  /\ input \in [fn : {"generate_articles"}, num_articles : 0..MaxArticles]
  /\ call = NoCall
  /\ ncalls = 0
  /\ dir_exists \in BOOLEAN
  /\ dir = << >>
  /\ dry_run = FALSE
  /\ backup = FALSE
  /\ pc = "main"
  /\ markdown_files = << >>
  /\ results = << >>
  /\ io_log = << >>
  /\ exit_code = -1
  /\ nruns = 1
  /\ faults = 0
  /\ AnalyzeIdle

NextGenerate ==
  \/ GenerateInvalid
  \/ GenerateBegin
  \/ GenerateArticle
  \/ GenerateFinish

SpecGenerate == InitGenerate /\ [][NextGenerate]_vars

(***************************************************************************)
(* SpecTools: one invocation of either tool over an articles directory.    *)
(* The analysis tool is the one running when an analyzer has been          *)
(* constructed.                                                            *)
(***************************************************************************)
InitTools ==
  \/ InitRun
  \/ InitAnalyze

MigrateStep ==
  /\ analyzer = << >>
  /\ RunStep

AnalyzeStep ==
  /\ analyzer # << >>
  /\ NextAnalyze

NextTools ==
  \/ MigrateStep
  \/ AnalyzeStep

SpecTools == InitTools /\ [][NextTools]_vars

(***************************************************************************)
(* Vocabulary of the properties of a run of the migration tool.            *)
(***************************************************************************)
Exited == pc = "exit"

\* the files of this run whose processing raised, and those reported modified
ErrorResults == {i \in DOMAIN results : results[i].error}

ModifiedResults == {i \in DOMAIN results : results[i].ret}

\* the directory holds a file named *.md or *.markdown
HasMarkdown == \E n \in DOMAIN dir : n[Len(n)] \in {"md", "markdown"}

(***************************************************************************)
(* C2: with dry_run enabled no step of the tool changes the directory: no  *)
(* article is rewritten and no .backup file appears, whatever the run      *)
(* reports as modified.                                                    *)
(***************************************************************************)
C2_DryRunWritesNothing == [][dry_run => dir' = dir]_vars

C2_Witness ==
  /\ dry_run
  /\ backup
  /\ Exited
  /\ stats.files_modified = 2
  /\ io_log = << >>

(***************************************************************************)
(* C3: with backup requested, every write to an article is immediately     *)
(* preceded, in the same process_file call, by the completed copy of that  *)
(* article to its .backup sibling; after a copy that failed there is no    *)
(* write.                                                                  *)
(***************************************************************************)
C3_BackupBeforeRewrite ==
  backup =>
    \A i \in DOMAIN io_log :
      io_log[i].op = "write" =>
        /\ i > 1
        /\ io_log[i - 1] = CopyEvent(BackupPath(io_log[i].path), TRUE)

C3_Witness ==
  /\ backup
  /\ \E i \in DOMAIN io_log : io_log[i].op = "write"
  /\ \E i \in DOMAIN io_log : io_log[i].op = "copy" /\ ~io_log[i].done

(***************************************************************************)
(* C8 (as claimed): the migration tool exits with 1 when the articles      *)
(* directory is missing and with 0 in every other case.                    *)
(***************************************************************************)
C8_ExitOneOnlyIfMissing == Exited => exit_code = (IF ~dir_exists THEN 1 ELSE 0)

(***************************************************************************)
(* C8 (amended): the migration tool exits with 1 when the articles         *)
(* directory is missing or holds no *.md / *.markdown file, and with 0 in  *)
(* every other case.                                                       *)
(***************************************************************************)
C8_ExitOneIfMissingOrEmpty ==
  Exited => exit_code = (IF ~dir_exists \/ ~HasMarkdown THEN 1 ELSE 0)

C8_Witness ==
  /\ Exited
  /\ dir_exists
  /\ ~HasMarkdown
  /\ exit_code = 1

(***************************************************************************)
(* C10 (as claimed): a file whose processing raised is counted neither in  *)
(* files_processed nor in files_modified.                                  *)
(***************************************************************************)
C10_ErrorNotCounted ==
  /\ stats.files_processed = Len(results) - Cardinality(ErrorResults)
  /\ \A i \in ErrorResults : ~results[i].ret
  /\ stats.files_modified = Cardinality(ModifiedResults)

(***************************************************************************)
(* C10 (amended): an exception raised while a file is processed is caught; *)
(* the file is counted in files_processed, as every file handed to         *)
(* process_file is, and not in files_modified.                             *)
(***************************************************************************)
C10_ErrorCountedProcessedOnly ==
  /\ stats.files_processed = Len(results)
  /\ \A i \in ErrorResults : ~results[i].ret
  /\ stats.files_modified = Cardinality(ModifiedResults)

C10_Witness ==
  /\ Exited
  /\ exit_code = 0
  /\ ErrorResults # {}
  /\ stats.files_processed = 2
  /\ stats.files_modified = 1

OwnerOf(path) == IF path[Len(path)] = "backup" THEN SubSeq(path, 1, Len(path) - 1) ELSE path

\* the files of the directory a run globs
Globbed == Glob(dir, "markdown") \cup Glob(dir, "md")

\* the position of a file among the attempts of this run
AttemptOf(file) == CHOOSE i \in DOMAIN results : results[i].file = file

AttemptedAll ==
  /\ Len(results) = Cardinality(Globbed)
  /\ {results[i].file : i \in DOMAIN results} = Globbed

C11_EveryFileOnceThenSuccess ==
  /\ [](pc = "loop" =>
          LET files == [i \in DOMAIN results |-> results[i].file] \o markdown_files
          IN  /\ Len(files) = Cardinality(Globbed)
              /\ {files[i] : i \in DOMAIN files} = Globbed)
  /\ [](\A i, j \in DOMAIN io_log :
          i <= j => AttemptOf(OwnerOf(io_log[i].path)) <= AttemptOf(OwnerOf(io_log[j].path)))
  /\ []((Exited /\ dir_exists /\ HasMarkdown) => (exit_code = 0 /\ AttemptedAll))
  /\ ((pc = "main" /\ dir_exists /\ HasMarkdown) ~> (Exited /\ exit_code = 0 /\ AttemptedAll))

C11_Witness ==
  /\ Exited
  /\ exit_code = 0
  /\ AttemptedAll
  /\ Len(results) = 2
  /\ results[1].error
  /\ io_log # << >>
  /\ OwnerOf(io_log[1].path) = results[2].file

(***************************************************************************)
(* C12: a file whose metadata block fails to decode parses to the empty    *)
(* mapping together with its original content; the step of either tool on  *)
(* such a file leaves the directory as it was (no write, no backup), does   *)
(* not count the file as modified, records nothing in the analyzer, and    *)
(* leaves the tool in its loop with the rest of the files to come.         *)
(***************************************************************************)
C12_DecodeFailureSkipsFile ==
  [][(/\ pc = "loop"
      /\ markdown_files # << >>
      /\ dir[Head(markdown_files)].kind = "badyaml")
     => /\ parse_frontmatter(dir[Head(markdown_files)])
             = [frontmatter |-> EmptyMapping, body |-> dir[Head(markdown_files)]]
        /\ dir' = dir
        /\ io_log' = io_log
        /\ stats'.files_modified = stats.files_modified
        /\ ~results'[Len(results')].ret
        /\ analyzer' = analyzer
        /\ pc' = "loop"
        /\ markdown_files' = Tail(markdown_files)]_vars

C12_Witness ==
  /\ Len(results) = 2
  /\ dir[results[1].file].kind = "badyaml"
  /\ ~results[1].error
  /\ analyzer # << >>
  /\ Len(analyzer.articles_data) = 1
  /\ analyzer.articles_data[1].file = results[2].file

(***************************************************************************)
(* C13: for a document whose tags, categories and date migration leaves    *)
(* as they are, parse_frontmatter followed by serialize_frontmatter gives  *)
(* a text in which the tags line, the categories line and the date line    *)
(* of the source stand character for character, whatever form they were    *)
(* written in.                                                             *)
(***************************************************************************)
C13_RoundTripFidelity ==
  (call.fn = "round_trip" /\ ~process_file_text(input.text).ret) =>
    \A i \in DOMAIN input.fields :
      input.fields[i].key \in {"tags", "categories", "date"} =>
        Find(call.ret, "\n" \o input.fields[i].text \o "\n") > 0

(***************************************************************************)
(* C14: when process_file rewrites a file, the text the file holds         *)
(* afterwards is a metadata block, from a first line '---' to a last line  *)
(* '---', followed at once by the body of the text it held before, that is *)
(* all its text after the second '---', unchanged; and that text is the    *)
(* body of the new text too.                                               *)
(***************************************************************************)
\* the text after the second '---' of a content that begins with '---'
BodyOf(content) ==
  LET rest == SubSeq(content, 4, Len(content))
  IN  SubSeq(rest, Find(rest, "---") + 3, Len(rest))

C14_BodyPreserved ==
  (call.fn = "process_file" /\ call.ret.ret) =>
    LET old == call.arg
        new == call.ret.content
        block == SubSeq(new, 1, Len(new) - Len(BodyOf(old)))
    IN  /\ new = block \o BodyOf(old)
        /\ StartsWith(block, "---\n")
        /\ Len(block) >= 8
        /\ SubSeq(block, Len(block) - 3, Len(block)) = "\n---"
        /\ BodyOf(new) = BodyOf(old)

(***************************************************************************)
(* C15: on a text that does not begin with '---', or that holds fewer than *)
(* two occurrences of '---' one after the other, parse_frontmatter, in the *)
(* migration tool and in the analysis tool, returns the empty mapping      *)
(* together with the text itself, nothing of it consumed or altered.       *)
(***************************************************************************)
\* the occurrences of sep in s, each counted from the end of the one before
RECURSIVE Occurrences(_, _)
Occurrences(s, sep) ==
  IF Find(s, sep) = 0 THEN 0
  ELSE 1 + Occurrences(SubSeq(s, Find(s, sep) + Len(sep), Len(s)), sep)

C15_NoBlockReturnsText ==
  (/\ call.fn \in {"parse_frontmatter", "analyzer.parse_frontmatter"}
   /\ (~StartsWith(call.arg, "---") \/ Occurrences(call.arg, "---") < 2))
  => call.ret = [frontmatter |-> EmptyFrontmatter, body |-> call.arg]

C15_Witness ==
  /\ call.fn = "analyzer.parse_frontmatter"
  /\ StartsWith(call.arg, "----")
  /\ Occurrences(call.arg, "---") = 1
  /\ Len(input.fields) = 2
  /\ call.ret.body = input.text

(***************************************************************************)
(* C20: only a line that is exactly '---' opens or closes the metadata     *)
(* block: the decoder is called when, and only when, the first line is     *)
(* '---' and a later line is '---', and the text it is called with is made *)
(* of exactly the lines between the first line and the next such line.     *)
(***************************************************************************)
\* the first line after line 1 that is exactly '---', 0 when there is none
ClosingLine(lines) ==
  LET closing == {j \in 2..Len(lines) : lines[j] = "---"}
  IN  IF closing = {} THEN 0 ELSE CHOOSE j \in closing : \A k \in closing : j <= k

C20_WholeLineDelimiters ==
  call.fn \in {"parse_frontmatter", "analyzer.parse_frontmatter"} =>
    LET lines == Split(call.arg, "\n", -1)
        block == lines[1] = "---" /\ ClosingLine(lines) > 0
        handed == DecoderInput(call.arg)
        handed_lines == Split(handed.text, "\n", -1)
    IN  /\ handed.decoded <=> block
        /\ block =>
             /\ Len(handed_lines) >= 2
             /\ handed_lines[1] = ""
             /\ handed_lines[Len(handed_lines)] = ""
             /\ SubSeq(handed_lines, 2, Len(handed_lines) - 1)
                  = SubSeq(lines, 2, ClosingLine(lines) - 1)

(***************************************************************************)
(* C16: at every point of an analysis tag_cooccurrence[a][b] equals        *)
(* tag_cooccurrence[b][a], and for two different tags it is the sum, over  *)
(* the articles analysed so far, of the number of times a stands on the    *)
(* article times the number of times b does: 1 from every article that     *)
(* carries both once.                                                      *)
(***************************************************************************)
\* tag_cooccurrence[a][b], 0 where the defaultdict holds nothing
Cooccurrence(a, b) ==
  IF a \in DOMAIN analyzer.tag_cooccurrence THEN Count(analyzer.tag_cooccurrence[a], b) ELSE 0

\* how many times value stands in list
OccurrencesIn(list, value) == Cardinality({i \in DOMAIN list : list[i] = value})

\* the tags of the articles analysed so far
TagsAnalysed ==
  UNION {{analyzer.articles_data[i].tags[k] : k \in DOMAIN analyzer.articles_data[i].tags} :
           i \in DOMAIN analyzer.articles_data}

C16_CooccurrenceSymmetric ==
  analyzer # << >> =>
    /\ DOMAIN analyzer.tag_cooccurrence \subseteq TagsAnalysed
    /\ \A a, b \in TagsAnalysed :
         /\ Cooccurrence(a, b) = Cooccurrence(b, a)
         /\ a # b =>
              Cooccurrence(a, b) =
                SumOver([i \in DOMAIN analyzer.articles_data |->
                           OccurrencesIn(analyzer.articles_data[i].tags, a)
                           * OccurrencesIn(analyzer.articles_data[i].tags, b)],
                        DOMAIN analyzer.articles_data)

C16_Witness ==
  /\ analyzer # << >>
  /\ Len(analyzer.articles_data) = 2
  /\ Cooccurrence("golang", "nepal") = 2
  /\ Cooccurrence("nepal", "golang") = 2
  /\ Cooccurrence("rust", "nepal") = 1

(***************************************************************************)
(* C17: in the summary of an analysis a tag (a category) is listed as a    *)
(* singleton if and only if it stands on exactly one of the articles       *)
(* analysed; one that stands on two or more is never listed.               *)
(***************************************************************************)
\* the analysed articles that carry the tag, and those in the category
ArticlesTagged(tag) ==
  {i \in DOMAIN analyzer.articles_data : OccurrencesIn(analyzer.articles_data[i].tags, tag) > 0}

ArticlesIn(category) ==
  {i \in DOMAIN analyzer.articles_data :
     OccurrencesIn(analyzer.articles_data[i].categories, category) > 0}

C17_SingletonIffOneArticle ==
  (Exited /\ exit_code = 0 /\ analyzer # << >>) =>
    /\ \A tag \in TagsAnalysed \cup DOMAIN analyzer.tags_counter :
         tag \in summary.singleton_tag_list <=> Cardinality(ArticlesTagged(tag)) = 1
    /\ \A category \in DOMAIN analyzer.categories_counter :
         category \in summary.singleton_category_list
           <=> Cardinality(ArticlesIn(category)) = 1

(***************************************************************************)
(* C19: every tag entry and every category entry a report lists, in the    *)
(* text, the json and the csv format alike, has a usage count of at least  *)
(* min_count.                                                              *)
(***************************************************************************)
C19_ReportRespectsMinCount ==
  call.fn = "generate_report" =>
    \A e \in call.ret.tags \cup call.ret.categories : e.count >= call.arg.min_count

(***************************************************************************)
(* C18: the generator run with count n on an empty output directory ends   *)
(* with exactly n files in it.                                             *)
(***************************************************************************)
C18_WritesThatManyFiles ==
  (Exited /\ exit_code = 0 /\ input.fn = "generate_articles") =>
    Cardinality(DOMAIN dir) = input.num_articles

(***************************************************************************)
(* C21: at every point of an analysis tag_cooccurrence holds, for two      *)
(* different tags, the number of analysed articles that carry both (one    *)
(* increment in each ordering per article and unordered pair of distinct   *)
(* tags), and nothing else: tag_cooccurrence[a][a] is 0 for every tag.     *)
(***************************************************************************)
\* the analysed articles that carry both tags
ArticlesWithBoth(a, b) == ArticlesTagged(a) \cap ArticlesTagged(b)

\* every tag the analyzer has met
TagsSeen ==
  TagsAnalysed \cup DOMAIN analyzer.tag_cooccurrence
    \cup UNION {DOMAIN analyzer.tag_cooccurrence[a] : a \in DOMAIN analyzer.tag_cooccurrence}

C21_OncePerDistinctPair ==
  analyzer # << >> =>
    \A a, b \in TagsSeen :
      Cooccurrence(a, b) = IF a = b THEN 0 ELSE Cardinality(ArticlesWithBoth(a, b))

(***************************************************************************)
(* C22: the summary of an analysis that recorded at least one article      *)
(* names as most-tagged an article with the largest tag count and as       *)
(* least-tagged one with the smallest, and in both cases the one scanned   *)
(* first among the articles that tie.                                      *)
(***************************************************************************)
Max(S) == CHOOSE x \in S : \A y \in S : y <= x

\* the positions, in scan order, of the recorded articles with n tags
ScannedWith(n) == {i \in DOMAIN analyzer.articles_data : analyzer.articles_data[i].tag_count = n}

TagCounts == {analyzer.articles_data[i].tag_count : i \in DOMAIN analyzer.articles_data}

\* a summary was made of at least one recorded article
Summarised ==
  /\ Exited
  /\ exit_code = 0
  /\ analyzer # << >>
  /\ analyzer.articles_data # << >>

C22_TiesToEarliestScanned ==
  Summarised =>
    /\ summary.most_tagged_article = analyzer.articles_data[Min(ScannedWith(Max(TagCounts)))]
    /\ summary.least_tagged_article = analyzer.articles_data[Min(ScannedWith(Min(TagCounts)))]

\* C22 as the code has it: the most-tagged article is the first scanned of
\* those with the largest tag count, the least-tagged article the last
\* scanned of those with the smallest.
C22_MostEarliestLeastLatest ==
  Summarised =>
    /\ summary.most_tagged_article = analyzer.articles_data[Min(ScannedWith(Max(TagCounts)))]
    /\ summary.least_tagged_article = analyzer.articles_data[Max(ScannedWith(Min(TagCounts)))]

\* two recorded articles tie on the tag count, and both are reported
C22_Witness ==
  /\ Summarised
  /\ Len(analyzer.articles_data) = 2
  /\ analyzer.articles_data[1].tag_count = analyzer.articles_data[2].tag_count
  /\ summary.most_tagged_article = analyzer.articles_data[1]
  /\ summary.least_tagged_article = analyzer.articles_data[2]

(***************************************************************************)
(* C23: a report lists B as a redundancy candidate under A exactly when    *)
(* tag_cooccurrence[A][B] is at least 1 and five times it is at least four *)
(* times tags_counter[A].  The count of B plays no part, so B under A does *)
(* not make A stand under B.                                               *)
(***************************************************************************)
\* the report of the run lists redundancy candidates (text and json do)
ListsRedundant == call.fn = "generate_report" /\ call.arg.output # "csv"

\* B stands under A in the report
ListedUnder(a, b) ==
  /\ a \in DOMAIN call.ret.redundant_tags
  /\ \E e \in call.ret.redundant_tags[a] : e.tag = b

C23_RedundantByOwnCount ==
  (ListsRedundant /\ analyzer # << >>) =>
    \A a, b \in TagsSeen \cup DOMAIN call.ret.redundant_tags :
      ListedUnder(a, b) <=>
        /\ Cooccurrence(a, b) >= 1
        /\ 5 * Cooccurrence(a, b) >= 4 * Count(analyzer.tags_counter, a)

\* nepal stands under rust (1 of 1) while rust does not stand under nepal
\* (1 of 2)
C23_Witness ==
  /\ ListsRedundant
  /\ analyzer # << >>
  /\ Count(analyzer.tags_counter, "nepal") = 2
  /\ Cooccurrence("nepal", "rust") = 1
  /\ ListedUnder("rust", "nepal")
  /\ ~ListedUnder("nepal", "rust")

(***************************************************************************)
(* C24: when a run that is not a dry run processes a file whose migrated   *)
(* categories and tags equal the ones it holds, nothing is stored: the     *)
(* file keeps its content, no backup of it is made and process_file        *)
(* returns False.                                                          *)
(***************************************************************************)
\* the file holds a metadata block that the migration leaves as it is
NothingToMigrate(file) ==
  LET frontmatter == parse_frontmatter(dir[file]).frontmatter IN
  /\ ~frontmatter.empty
  /\ migrate_categories(frontmatter.categories).new = frontmatter.categories
  /\ migrate_tags(frontmatter.tags).new = frontmatter.tags

\* the next step of the loop processes such a file and reads it
ProcessingSettled ==
  /\ input.fn = "none"
  /\ analyzer = << >>
  /\ pc = "loop"
  /\ markdown_files # << >>
  /\ ~dry_run
  /\ NothingToMigrate(Head(markdown_files))

C24_UnchangedNeverWritten ==
  [][ProcessingSettled =>
       /\ dir' = dir
       /\ io_log' = io_log
       /\ ~results'[Len(results')].ret
       /\ stats'.files_modified = stats.files_modified]_vars

\* a run with backups has gone through a file that needed no change
C24_Witness ==
  /\ input.fn = "none"
  /\ analyzer = << >>
  /\ ~dry_run
  /\ backup
  /\ \E i \in DOMAIN results :
       /\ ~results[i].ret
       /\ ~results[i].error
       /\ NothingToMigrate(results[i].file)
       /\ BackupPath(results[i].file) \notin DOMAIN dir
       /\ stats.files_processed >= i

(***************************************************************************)
(* C25: when process_file has rewritten a file, parsing the text it wrote  *)
(* gives, for 'tags' and for 'categories', the very list that was handed   *)
(* to serialize_frontmatter: the same strings in the same order.           *)
(***************************************************************************)
\* the mapping parse_frontmatter yields when the file is read again
ReadAgain(written) == parse_frontmatter_text(UniversalNewlines(written)).frontmatter

\* the list process_file hands to serialize_frontmatter under key for the
\* text it read: the migrated one, which is the original one where the
\* migration changes nothing
HandedToSerialize(text, key) ==
  LET original == Get(ReadAgain(text).mapping, key, ListValue(<< >>))
      items == Iterated(original).items
  IN  ListValue(IF key = "tags" THEN migrate_tags(items).new
                ELSE migrate_categories(items).new)

C25_WrittenListsReadBack ==
  (call.fn = "process_file" /\ call.ret.ret) =>
    \A key \in {"tags", "categories"} :
      HasKey(ReadAgain(call.arg).mapping, key) =>
        Get(ReadAgain(call.ret.content).mapping, key, NullValue)
          = HandedToSerialize(call.arg, key)

(***************************************************************************)
(* C26: a run without --dry-run that follows a dry run over the same       *)
(* directory ends with the statistics the dry run ended with and reports   *)
(* the same files as modified.                                             *)
(***************************************************************************)
\* the files for which process_file returned True
ModifiedIn(rs) == {rs[i].file : i \in {j \in DOMAIN rs : rs[j].ret}}

\* the files whose processing raised
RaisedIn(rs) == {rs[i].file : i \in {j \in DOMAIN rs : rs[j].error}}

\* the real run that followed a dry run has ended
BothRunsOver == call.fn = "dry_run" /\ Exited

Total(counter) == SumOver(counter, DOMAIN counter)

C27_CountersMatchArticles ==
  analyzer # << >> =>
    /\ Total(analyzer.tags_counter)
         = SumOver([i \in DOMAIN analyzer.articles_data |-> analyzer.articles_data[i].tag_count],
                   DOMAIN analyzer.articles_data)
    /\ Total(analyzer.categories_counter)
         = SumOver([i \in DOMAIN analyzer.articles_data |->
                      analyzer.articles_data[i].category_count],
                   DOMAIN analyzer.articles_data)

(***************************************************************************)
(* C28: at every point of an analysis, for two different tags a and b,     *)
(* tag_cooccurrence[a][b] is at most tags_counter[a] and at most           *)
(* tags_counter[b]: the share of the appearances of a that are together    *)
(* with b is never more than the whole.                                    *)
(***************************************************************************)
C28_CooccurrenceWithinCounts ==
  analyzer # << >> =>
    \A a, b \in TagsSeen :
      a # b =>
        /\ Cooccurrence(a, b) <= Count(analyzer.tags_counter, a)
        /\ Cooccurrence(a, b) <= Count(analyzer.tags_counter, b)

(***************************************************************************)
(* C29: files_modified never exceeds files_processed, and when a run that  *)
(* is not a dry run has ended, files_modified is the number of article     *)
(* files whose content is not what it was when the run began.              *)
(***************************************************************************)
\* the article files whose content differs from what the run started with
\* (the directory the preceding dry run went over, which it left as it was)
ContentChanged ==
  {file \in DOMAIN dir \cap DOMAIN call.arg.dir : dir[file] # call.arg.dir[file]}

C29_ModifiedCountsRewritten ==
  /\ stats.files_modified <= stats.files_processed
  /\ BothRunsOver => stats.files_modified = Cardinality(ContentChanged)

(***************************************************************************)
(* C30: no file named *.backup is ever in the list of files a run          *)
(* processes, and over runs with backups enabled the .backup sibling of    *)
(* an article always is the content the article had just before it was     *)
(* last rewritten: a step that rewrites an article leaves that content in  *)
(* its .backup, and a step that does not rewrite an article leaves its     *)
(* .backup as it was.                                                      *)
(***************************************************************************)
IsBackup(path) == path[Len(path)] = "backup"

\* no .backup file is, or was, selected for processing
BackupsNeverSelected ==
  /\ \A i \in DOMAIN markdown_files : ~IsBackup(markdown_files[i])
  /\ \A i \in DOMAIN results : ~IsBackup(results[i].file)

\* what the directory holds under path, << >> when there is no such file
Stored(d, path) == IF path \in DOMAIN d THEN d[path] ELSE << >>

\* a step of a run of the migration tool with backups enabled
BackupRunStep == input.fn = "none" /\ analyzer = << >> /\ backup /\ pc = "loop"

\* the step has rewritten every article whose backup it touched and has
\* left in the backup of every article it changed that article's former
\* content
BackupFollowsRewrite ==
  \A file \in {path \in DOMAIN dir : ~IsBackup(path)} :
    IF dir'[file] # dir[file]
      THEN Stored(dir', BackupPath(file)) = dir[file]
      ELSE Stored(dir', BackupPath(file)) = Stored(dir, BackupPath(file))

C30_BackupIsPreRewriteContent ==
  /\ []BackupsNeverSelected
  /\ [][BackupRunStep => BackupFollowsRewrite]_vars

\* the storage events of the step
StepEvents == SubSeq(io_log', Len(io_log) + 1, Len(io_log'))

\* C30 as the code has it: no *.backup file is ever selected; a step that
\* changes an article leaves the article's former content in its .backup;
\* a step without a copy leaves every .backup as it was; a completed copy
\* leaves the article's current content in its .backup whether or not the
\* rewrite that follows succeeds; and a copy that fails part-way leaves a
\* partial .backup and the article as it was.
BackupFollowsCopy ==
  \A file \in {path \in DOMAIN dir : ~IsBackup(path)} :
    /\ dir'[file] # dir[file] => Stored(dir', BackupPath(file)) = dir[file]
    /\ CopyEvent(BackupPath(file), TRUE) \in {StepEvents[i] : i \in DOMAIN StepEvents}
         => Stored(dir', BackupPath(file)) = dir[file]
    /\ CopyEvent(BackupPath(file), FALSE) \in {StepEvents[i] : i \in DOMAIN StepEvents}
         => /\ Stored(dir', BackupPath(file)) = Partial
            /\ dir'[file] = dir[file]
    /\ (\A i \in DOMAIN StepEvents : StepEvents[i].path # BackupPath(file))
         => Stored(dir', BackupPath(file)) = Stored(dir, BackupPath(file))

C30_BackupIsContentAtCopy ==
  /\ []BackupsNeverSelected
  /\ [][BackupRunStep => BackupFollowsCopy]_vars

\* the second run rewrote an article the first run had rewritten: its
\* backup is now what the first run wrote, and the run took no .backup
\* file for an article
C30_Witness ==
  /\ input.fn = "none"
  /\ analyzer = << >>
  /\ backup
  /\ nruns = 2
  /\ Exited
  /\ faults = 0
  /\ Len(results) = 1
  /\ \E file \in DOMAIN dir :
       /\ ~IsBackup(file)
       /\ BackupPath(file) \in DOMAIN dir
       /\ dir[BackupPath(file)] = Article(<< >>, <<"life-lessons">>)
       /\ dir[file] = Article(<< >>, <<"personal-growth">>)
       /\ CopyEvent(BackupPath(file), TRUE) \in {io_log[i] : i \in DOMAIN io_log}

====
